---------------------------- MODULE Spec2Model ----------------------------
(***************************************************************************)
(* A model of the legal-document assistant:                                *)
(*   - the fixed-precedence pipeline of main.py (run_pipeline and its two  *)
(*     callers, upload_document and run_pipeline_multiple_docs);           *)
(*   - the supervisor-routed graph of graph/multi_agent_graph.py;          *)
(*   - the question-answering session of agents/question_answer_agent.py.  *)
(*   - the ingestion of tools/document_processor.py (process_document,     *)
(*     store_metadata and the batched writes to the vector store).         *)
(* Each part has its own specification over its own variables; the other   *)
(* parts' variables stay at their initial values under it.                 *)
(***************************************************************************)
EXTENDS Integers, Sequences, FiniteSets, TLC

VARIABLES
    \* ---- main.py: one pipeline run per document path
    mode,          \* which route serves the request: "upload" | "multiple"
    active,        \* the document paths of the request
    pc,            \* run_pipeline's position, per path
    stage,         \* each agent invocation's status, per path
    invoked,       \* how many times each agent was invoked, per path
    input,         \* the object json.dumps'ed into each agent's user message
    agent_result,  \* the messages each agent invocation returned
    local,         \* run_pipeline's locals extracted_text .. final_report_text
    completed,     \* history: the stages in the order their invocations ended
    ret,           \* what process_single returned for the path
    response,      \* the route's reply
    \* ---- graph/multi_agent_graph.py: one run of the compiled graph
    g_node,        \* the node the graph is at
    g_last,        \* state["messages"][-1] when decide_next last ran
    g_route,       \* what decide_next last did: the name returned, or raised
    g_done,        \* the worker agents that have run
    \* ---- agents/question_answer_agent.py: the QAAgent instances
    index,         \* the chunks of the vector store both retrievers read
    agent,         \* each QAAgent's doc_id, _doc_id_candidates, max_history
    history,       \* each QAAgent's self.history
    qa_pc,         \* answer's position, per QAAgent
    call,          \* the locals of the answer call in progress
    calls,         \* how many answer calls the QAAgent has seen
    outcome,       \* how the last answer call ended
    \* ---- tools/document_processor.py: one DocumentProcessorTools
    tool,          \* its batch_size and the chunk_size of its splitter
    vectordb,      \* the chunks of the vector store, in the order written
    dp_pc,         \* the position of the call in progress
    dp_call,       \* the call: process_document or store_metadata, its arguments
    dp_chunks,     \* the chunks the call hands to store_in_vectordb_batch
    dp_i,          \* the loop variable i of store_in_vectordb_batch
    writes,        \* history: the batches the call has written, in order
    dp_result,     \* what the call returned, or the exception it raised
    \* ---- main.py: one request to the /ask route
    ask            \* ask_question's position, its request and its reply

pipeVars == <<mode, active, pc, stage, invoked, input, agent_result, local,
              completed, ret, response>>

graphVars == <<g_node, g_last, g_route, g_done>>

qaVars == <<index, agent, history, qa_pc, call, calls, outcome>>

ingestVars == <<tool, vectordb, dp_pc, dp_call, dp_chunks, dp_i, writes,
                dp_result>>

askVars == <<ask>>

otherThanPipe == <<graphVars, qaVars, ingestVars, askVars>>

otherThanGraph == <<pipeVars, qaVars, ingestVars, askVars>>

otherThanQA == <<pipeVars, graphVars, ingestVars, askVars>>

otherThanIngest == <<pipeVars, graphVars, qaVars, askVars>>

otherThanAsk == <<pipeVars, graphVars, ingestVars>>

vars == <<pipeVars, graphVars, qaVars, ingestVars, askVars>>

-----------------------------------------------------------------------------
(***************************************************************************)
(*                         main.py: the pipeline                           *)
(***************************************************************************)

\* The document paths a request can carry (uuid-prefixed, hence distinct).
DocumentPaths == {"p1", "p2"}

\* The five agents run_pipeline creates (main.py 67-71).
Stages == {"processor", "summarizer", "clause", "risk", "report"}

\* Python's None, and the values that flow between the stages: src is the
\* stage whose final message the value comes from, form says whether
\* json.loads parsed it ("parsed"), whether it is the message text kept as
\* it was ("raw"), or a value of the request itself ("given"); dumped says
\* whether the value was json.dumps'ed into a string on its way.
None == [src |-> "none", form |-> "none", dumped |-> FALSE]

Given(what) == [src |-> what, form |-> "given", dumped |-> FALSE]

\* json.dumps of a value: a string that encodes it.
Dumps(v) == [v EXCEPT !.dumped = TRUE]

\* An agent's final message: its content parses as JSON or does not.
FinalMessage(s, j) == [src |-> s, json |-> j]

\* The user message an agent is invoked with (always the first message of
\* the state the agent returns).
UserMessage == [src |-> "user", json |-> TRUE]

\* main.py 51-60.  json.loads succeeds on JSON text and the parsed value is
\* returned; on any exception the text itself is returned; None without
\* messages.
ExtractContent(messages) ==
    IF messages = <<>>
    THEN None
    ELSE LET msg == messages[Len(messages)]
         IN  IF msg.json
             THEN [src |-> msg.src, form |-> "parsed", dumped |-> FALSE]
             ELSE [src |-> msg.src, form |-> "raw", dumped |-> FALSE]

Field(name, v) == [field |-> name, val |-> v]

\* main.py 74: the processor's user message is the document path.
ProcessorInput == {Field("document_path", Given("path"))}

\* main.py 78.
SummaryInput(extracted_text) == {Field("extracted_text", extracted_text)}

\* main.py 79: "summary" holds summary_input, the summarizer's encoded input.
ClauseInput(extracted_text) ==
    {Field("summary", Dumps(extracted_text)),
     Field("extracted_text", extracted_text)}

\* main.py 90-94.
RiskInput(l) ==
    {Field("summary", l.summary_text),
     Field("simplified_clauses", l.clauses_text),
     Field("extracted_text", l.extracted_text)}

\* main.py 99-106.
ReportInput(l) ==
    {Field("file_name", Given("basename")),
     Field("vector_db_path", Given("VECTOR_DIR")),
     Field("extracted_text", l.extracted_text),
     Field("summary", l.summary_text),
     Field("clauses", l.clauses_text),
     Field("risk_assessment", l.risk_text)}

Locals == {"extracted_text", "summary_text", "clauses_text", "risk_text",
           "final_report_text"}

\* The stages run_pipeline is suspended on at each of its awaits.
Awaited(at) ==
    CASE at = "await_processor" -> {"processor"}
      [] at = "await_gather"    -> {"summarizer", "clause"}
      [] at = "await_risk"      -> {"risk"}
      [] at = "await_report"    -> {"report"}
      [] OTHER                  -> {}

\* ainvoke on each agent of S with its input: the invocations are in flight.
Launch(p, S, inputs) ==
    /\ stage' = [stage EXCEPT ![p] =
                    [s \in Stages |-> IF s \in S THEN "inflight" ELSE @[s]]]
    /\ invoked' = [invoked EXCEPT ![p] =
                    [s \in Stages |-> IF s \in S THEN @[s] + 1 ELSE @[s]]]
    /\ input' = [input EXCEPT ![p] =
                    [s \in Stages |-> IF s \in S THEN inputs[s] ELSE @[s]]]

\* Before run_pipeline is entered.
NoRun ==
    /\ pc = [p \in DocumentPaths |-> "idle"]
    /\ stage = [p \in DocumentPaths |-> [s \in Stages |-> "idle"]]
    /\ invoked = [p \in DocumentPaths |-> [s \in Stages |-> 0]]
    /\ input = [p \in DocumentPaths |-> [s \in Stages |-> {}]]
    /\ agent_result = [p \in DocumentPaths |-> [s \in Stages |-> <<>>]]
    /\ local = [p \in DocumentPaths |-> [v \in Locals |-> None]]
    /\ completed = [p \in DocumentPaths |-> <<>>]
    /\ ret = [p \in DocumentPaths |-> [kind |-> "pending", val |-> None]]
    /\ response = [status |-> 0, body |-> {}]

\* A request: /upload carries one file, /upload-multiple some files.
PipeInit ==
    /\ mode \in {"upload", "multiple"}
    /\ active \in SUBSET DocumentPaths
    /\ active # {}
    /\ mode = "upload" => active = {"p1"}
    /\ NoRun

\* No request at all.
NoRequest ==
    /\ mode = "upload"
    /\ active = {}
    /\ NoRun

\* main.py 63-74: the agents are created and the processor is invoked.
StartPipeline(p) ==
    /\ p \in active
    /\ pc[p] = "idle"
    /\ pc' = [pc EXCEPT ![p] = "await_processor"]
    /\ Launch(p, {"processor"}, [s \in Stages |-> ProcessorInput])
    /\ UNCHANGED <<mode, active, agent_result, local, completed, ret, response>>
    /\ UNCHANGED otherThanPipe

\* An agent invocation in flight returns its messages.  Nothing cancels an
\* invocation, so it may return after run_pipeline itself has raised.
StageReturns(p, s, j) ==
    /\ stage[p][s] = "inflight"
    /\ stage' = [stage EXCEPT ![p][s] = "returned"]
    /\ agent_result' = [agent_result EXCEPT ![p][s] =
                           <<UserMessage, FinalMessage(s, j)>>]
    /\ completed' = [completed EXCEPT ![p] = Append(@, s)]
    /\ UNCHANGED <<mode, active, pc, invoked, input, local, ret, response>>
    /\ UNCHANGED otherThanPipe

\* An agent invocation in flight raises.
StageRaises(p, s) ==
    /\ stage[p][s] = "inflight"
    /\ stage' = [stage EXCEPT ![p][s] = "raised"]
    /\ completed' = [completed EXCEPT ![p] = Append(@, s)]
    /\ UNCHANGED <<mode, active, pc, invoked, input, agent_result, local, ret,
                   response>>
    /\ UNCHANGED otherThanPipe

\* A run_pipeline that answers a failed invocation by invoking the agent again.
PipelineRetries(p) ==
    /\ \E s \in Awaited(pc[p]) :
          /\ stage[p][s] = "raised"
          /\ Launch(p, {s}, input[p])
    /\ UNCHANGED <<mode, active, pc, agent_result, local, completed, ret,
                   response>>
    /\ UNCHANGED otherThanPipe

\* The exception of an awaited invocation reaches run_pipeline, which has no
\* handler: the await (asyncio.gather at main.py 84 included, as soon as one
\* of its two invocations has raised) raises out of run_pipeline.
PipelineRaises(p) ==
    /\ \E s \in Awaited(pc[p]) : stage[p][s] = "raised"
    /\ pc' = [pc EXCEPT ![p] = "raised"]
    /\ UNCHANGED <<mode, active, stage, invoked, input, agent_result, local,
                   completed, ret, response>>
    /\ UNCHANGED otherThanPipe

\* A run_pipeline that awaits the summarizer before it invokes the clause
\* explainer: only the summarizer is started here.
AfterProcessorSequential(p) ==
    /\ pc[p] = "await_processor"
    /\ stage[p]["processor"] = "returned"
    /\ LET extracted_text == ExtractContent(agent_result[p]["processor"])
       IN  /\ local' = [local EXCEPT ![p]["extracted_text"] = extracted_text]
           /\ Launch(p, {"summarizer"},
                     [s \in Stages |-> SummaryInput(extracted_text)])
    /\ pc' = [pc EXCEPT ![p] = "await_gather"]
    /\ UNCHANGED <<mode, active, agent_result, completed, ret, response>>
    /\ UNCHANGED otherThanPipe

\* A run_pipeline that hands the risk agent to the same gather as the
\* summarizer and the clause explainer.
AfterProcessorGathersRisk(p) ==
    /\ pc[p] = "await_processor"
    /\ stage[p]["processor"] = "returned"
    /\ LET extracted_text == ExtractContent(agent_result[p]["processor"])
           l == [local[p] EXCEPT !["extracted_text"] = extracted_text]
       IN  /\ local' = [local EXCEPT ![p] = l]
           /\ Launch(p, {"summarizer", "clause", "risk"},
                     [s \in Stages |-> IF s = "summarizer"
                                       THEN SummaryInput(extracted_text)
                                       ELSE IF s = "clause"
                                            THEN ClauseInput(extracted_text)
                                            ELSE RiskInput(l)])
    /\ pc' = [pc EXCEPT ![p] = "await_gather"]
    /\ UNCHANGED <<mode, active, agent_result, completed, ret, response>>
    /\ UNCHANGED otherThanPipe

\* main.py 75-84: the processor's content is extracted, both inputs are
\* built from it and both invocations are handed to asyncio.gather.
AfterProcessor(p) ==
    /\ pc[p] = "await_processor"
    /\ stage[p]["processor"] = "returned"
    /\ LET extracted_text == ExtractContent(agent_result[p]["processor"])
       IN  /\ local' = [local EXCEPT ![p]["extracted_text"] = extracted_text]
           /\ Launch(p, {"summarizer", "clause"},
                     [s \in Stages |-> IF s = "summarizer"
                                       THEN SummaryInput(extracted_text)
                                       ELSE ClauseInput(extracted_text)])
    /\ pc' = [pc EXCEPT ![p] = "await_gather"]
    /\ UNCHANGED <<mode, active, agent_result, completed, ret, response>>
    /\ UNCHANGED otherThanPipe

\* A run_pipeline that goes on as soon as the summarizer has returned,
\* without joining on the clause explainer.
AfterGatherNoJoin(p) ==
    /\ pc[p] = "await_gather"
    /\ stage[p]["summarizer"] = "returned"
    /\ LET l == [local[p] EXCEPT
                    !["summary_text"] = ExtractContent(agent_result[p]["summarizer"]),
                    !["clauses_text"] = ExtractContent(agent_result[p]["clause"])]
       IN  /\ local' = [local EXCEPT ![p] = l]
           /\ Launch(p, {"risk"}, [s \in Stages |-> RiskInput(l)])
    /\ pc' = [pc EXCEPT ![p] = "await_risk"]
    /\ UNCHANGED <<mode, active, agent_result, completed, ret, response>>
    /\ UNCHANGED otherThanPipe

\* main.py 84-95: gather hands back both results, their contents are
\* extracted and the risk agent is invoked.
AfterGather(p) ==
    /\ pc[p] = "await_gather"
    /\ stage[p]["summarizer"] = "returned"
    /\ stage[p]["clause"] = "returned"
    /\ LET l == [local[p] EXCEPT
                    !["summary_text"] = ExtractContent(agent_result[p]["summarizer"]),
                    !["clauses_text"] = ExtractContent(agent_result[p]["clause"])]
       IN  /\ local' = [local EXCEPT ![p] = l]
           /\ Launch(p, {"risk"}, [s \in Stages |-> RiskInput(l)])
    /\ pc' = [pc EXCEPT ![p] = "await_risk"]
    /\ UNCHANGED <<mode, active, agent_result, completed, ret, response>>
    /\ UNCHANGED otherThanPipe

\* A run_pipeline that invokes the report agent and returns without awaiting
\* it.
AfterRiskNoAwait(p) ==
    /\ pc[p] = "await_risk"
    /\ stage[p]["risk"] = "returned"
    /\ LET l == [local[p] EXCEPT
                    !["risk_text"] = ExtractContent(agent_result[p]["risk"])]
       IN  /\ local' = [local EXCEPT ![p] = l]
           /\ Launch(p, {"report"}, [s \in Stages |-> ReportInput(l)])
    /\ pc' = [pc EXCEPT ![p] = "returned"]
    /\ UNCHANGED <<mode, active, agent_result, completed, ret, response>>
    /\ UNCHANGED otherThanPipe

\* main.py 95-107.
AfterRisk(p) ==
    /\ pc[p] = "await_risk"
    /\ stage[p]["risk"] = "returned"
    /\ LET l == [local[p] EXCEPT
                    !["risk_text"] = ExtractContent(agent_result[p]["risk"])]
       IN  /\ local' = [local EXCEPT ![p] = l]
           /\ Launch(p, {"report"}, [s \in Stages |-> ReportInput(l)])
    /\ pc' = [pc EXCEPT ![p] = "await_report"]
    /\ UNCHANGED <<mode, active, agent_result, completed, ret, response>>
    /\ UNCHANGED otherThanPipe

\* main.py 107-110.
AfterReport(p) ==
    /\ pc[p] = "await_report"
    /\ stage[p]["report"] = "returned"
    /\ local' = [local EXCEPT ![p]["final_report_text"] =
                    ExtractContent(agent_result[p]["report"])]
    /\ pc' = [pc EXCEPT ![p] = "returned"]
    /\ UNCHANGED <<mode, active, stage, invoked, input, agent_result,
                   completed, ret, response>>
    /\ UNCHANGED otherThanPipe

\* main.py 141-152: upload_document writes the report and replies with it.
UploadReplies(p) ==
    /\ mode = "upload"
    /\ pc[p] = "returned"
    /\ response.status = 0
    /\ response' = [status |-> 200,
                    body |-> {[path |-> p, error |-> FALSE,
                               report |-> local[p]["final_report_text"]]}]
    /\ UNCHANGED <<mode, active, pc, stage, invoked, input, agent_result,
                   local, completed, ret>>
    /\ UNCHANGED otherThanPipe

\* main.py 154-155: any exception of the run becomes an HTTP 500.
UploadFails(p) ==
    /\ mode = "upload"
    /\ pc[p] = "raised"
    /\ response.status = 0
    /\ response' = [status |-> 500, body |-> {}]
    /\ UNCHANGED <<mode, active, pc, stage, invoked, input, agent_result,
                   local, completed, ret>>
    /\ UNCHANGED otherThanPipe

\* main.py 115-118: process_single returns the path's report.
SingleReturns(p) ==
    /\ mode = "multiple"
    /\ pc[p] = "returned"
    /\ ret[p].kind = "pending"
    /\ ret' = [ret EXCEPT ![p] = [kind |-> "report",
                                  val |-> local[p]["final_report_text"]]]
    /\ UNCHANGED <<mode, active, pc, stage, invoked, input, agent_result,
                   local, completed, response>>
    /\ UNCHANGED otherThanPipe

\* A process_single without its handler: the run's exception leaves the
\* gather and the request fails as a whole.
SingleFailsWholeRequest(p) ==
    /\ mode = "multiple"
    /\ pc[p] = "raised"
    /\ ret[p].kind = "pending"
    /\ response.status = 0
    /\ response' = [status |-> 500, body |-> {}]
    /\ UNCHANGED <<mode, active, pc, stage, invoked, input, agent_result,
                   local, completed, ret>>
    /\ UNCHANGED otherThanPipe

\* main.py 119-120: process_single turns the run's exception into a record.
SingleFails(p) ==
    /\ mode = "multiple"
    /\ pc[p] = "raised"
    /\ ret[p].kind = "pending"
    /\ ret' = [ret EXCEPT ![p] = [kind |-> "error", val |-> None]]
    /\ UNCHANGED <<mode, active, pc, stage, invoked, input, agent_result,
                   local, completed, response>>
    /\ UNCHANGED otherThanPipe

\* main.py 122-123 and 171-186: every process_single has returned; the
\* reports are keyed by path and sent.
MultipleReplies ==
    /\ mode = "multiple"
    /\ response.status = 0
    /\ \A p \in active : ret[p].kind # "pending"
    /\ response' = [status |-> 200,
                    body |-> {[path |-> p, error |-> ret[p].kind = "error",
                               report |-> ret[p].val] : p \in active}]
    /\ UNCHANGED <<mode, active, pc, stage, invoked, input, agent_result,
                   local, completed, ret>>
    /\ UNCHANGED otherThanPipe

PipeNext ==
    \/ \E p \in DocumentPaths : StartPipeline(p)
    \/ \E p \in DocumentPaths, s \in Stages, j \in BOOLEAN : StageReturns(p, s, j)
    \/ \E p \in DocumentPaths, s \in Stages : StageRaises(p, s)
    \/ \E p \in DocumentPaths : PipelineRaises(p)
    \/ \E p \in DocumentPaths : AfterProcessor(p)
    \/ \E p \in DocumentPaths : AfterGather(p)
    \/ \E p \in DocumentPaths : AfterRisk(p)
    \/ \E p \in DocumentPaths : AfterReport(p)
    \/ \E p \in DocumentPaths : UploadReplies(p)
    \/ \E p \in DocumentPaths : UploadFails(p)
    \/ \E p \in DocumentPaths : SingleReturns(p)
    \/ \E p \in DocumentPaths : SingleFails(p)
    \/ MultipleReplies

-----------------------------------------------------------------------------
(***************************************************************************)
(*          graph/multi_agent_graph.py: the supervisor-routed graph        *)
(***************************************************************************)

\* The worker agents of the path map (multi_agent_graph.py 44-48).
WorkerAgents == {"document_processor_agent", "summarizer_agent",
                 "clause_explainer_agent", "risk_analysis_agent",
                 "report_generator_agent"}

\* The texts a "next_agent" string can be made of: a worker's name, "end",
\* a name of no node, the empty text.
NameTexts == WorkerAgents \cup {"end", "bogus_stage", ""}

\* A string value: its text in lower case, whether some of its letters are
\* in upper case, whether white space surrounds it.
Strings == [text : NameTexts, upper : BOOLEAN, padded : BOOLEAN]

\* str.strip() and str.lower().
Strip(s) == [s EXCEPT !.padded = FALSE]

Lower(s) == [s EXCEPT !.upper = FALSE]

\* The string "x" as written in the source.
Literal(x) == [text |-> x, upper |-> FALSE, padded |-> FALSE]

\* The last message of the state: whether it is an AIMessage, what
\* json.loads makes of its stripped content ("invalid": it raises
\* JSONDecodeError, as for empty or missing content; "array", "scalar": a
\* JSON value that is no object; "object"), and for an object what it holds
\* under "next_agent" ("absent": no such key, "other": a value that is no
\* string, "string": the string next_agent).
LastMessages ==
    [ai : BOOLEAN, json : {"invalid", "array", "scalar"},
     key : {"absent"}, next_agent : {Literal("")}]
    \cup [ai : BOOLEAN, json : {"object"}, key : {"absent", "other"},
          next_agent : {Literal("")}]
    \cup [ai : BOOLEAN, json : {"object"}, key : {"string"},
          next_agent : Strings]

Returns(name) == [raised |-> FALSE, value |-> name]

Raises(what) == [raised |-> TRUE, value |-> what]

\* multi_agent_graph.py 53-75.  json.loads' JSONDecodeError is the only
\* exception caught: .get on a JSON value that is no object, and .strip on
\* a "next_agent" that is no string, raise AttributeError out of decide_next.
decide_next(last_msg) ==
    IF ~ last_msg.ai
    THEN Returns(Literal("end"))
    ELSE CASE last_msg.json = "invalid" -> Returns(Literal("end"))
           [] last_msg.json \in {"array", "scalar"} -> Raises("AttributeError")
           [] last_msg.json = "object" ->
                CASE last_msg.key = "absent" -> Returns(Literal("end"))
                  [] last_msg.key = "other" -> Raises("AttributeError")
                  [] last_msg.key = "string" ->
                       LET next_agent == Strip(last_msg.next_agent)
                       IN  IF next_agent.text # ""
                           THEN Returns(Lower(next_agent))
                           ELSE Returns(Literal("end"))

\* The destinations of the conditional edges (multi_agent_graph.py 43-50).
PathMap == {Literal(w) : w \in WorkerAgents} \cup {Literal("end")}

GraphInit ==
    /\ g_node = "START"
    /\ g_last = [ai |-> FALSE, json |-> "invalid", key |-> "absent",
                 next_agent |-> Literal("")]
    /\ g_route = Returns(Literal("START"))
    /\ g_done = {}

\* multi_agent_graph.py 37: START -> supervisor.
GraphStart ==
    /\ g_node = "START"
    /\ g_node' = "supervisor"
    /\ UNCHANGED <<g_last, g_route, g_done>>
    /\ UNCHANGED otherThanGraph

\* multi_agent_graph.py 40-51: the supervisor has left last_msg as the last
\* message and decide_next picks the conditional edge.  A name that is no
\* key of the path map, like an exception of decide_next, ends the run
\* with an error.
SupervisorStep(last_msg) ==
    /\ g_node = "supervisor"
    /\ g_last' = last_msg
    /\ g_route' = decide_next(last_msg)
    /\ g_node' = IF g_route'.raised \/ g_route'.value \notin PathMap
                 THEN "error"
                 ELSE IF g_route'.value = Literal("end")
                      THEN "END"
                      ELSE g_route'.value.text
    /\ UNCHANGED g_done
    /\ UNCHANGED otherThanGraph

\* A graph whose workers are chained: a worker hands control to the worker
\* of the next stage, and only the last one to the supervisor.
WorkerStepChains(w) ==
    /\ g_node = w
    /\ g_done' = g_done \cup {w}
    /\ g_node' = CASE w = "document_processor_agent" -> "summarizer_agent"
                   [] w = "summarizer_agent"         -> "clause_explainer_agent"
                   [] w = "clause_explainer_agent"   -> "risk_analysis_agent"
                   [] w = "risk_analysis_agent"      -> "report_generator_agent"
                   [] OTHER                          -> "supervisor"
    /\ UNCHANGED <<g_last, g_route>>
    /\ UNCHANGED otherThanGraph

\* multi_agent_graph.py 32-34: a worker runs and control returns to the
\* supervisor.
WorkerStep(w) ==
    /\ g_node = w
    /\ g_done' = g_done \cup {w}
    /\ g_node' = "supervisor"
    /\ UNCHANGED <<g_last, g_route>>
    /\ UNCHANGED otherThanGraph

GraphNext ==
    \/ GraphStart
    \/ \E last_msg \in LastMessages : SupervisorStep(last_msg)
    \/ \E w \in WorkerAgents : WorkerStep(w)

-----------------------------------------------------------------------------
(***************************************************************************)
(*          agents/question_answer_agent.py: the QA sessions               *)
(***************************************************************************)

\* How many chunks a retriever hands back at most (self.k), and how many
\* answer calls one QAAgent is followed through.
MaxRetrieved == 2

MaxCalls == 2

\* The QAAgent instances.
Sessions == {"s1", "s2"}

\* A Python str is the sequence of its characters.
Str(chars) == [kind |-> "str", s |-> chars]

\* Python's None as a document identifier, and as a metadata value.
NoDocId == <<"None">>

NoValue == [kind |-> "none"]

\* A metadata value: a str, an int, a list of str, or nothing.
IntValue(n) == [kind |-> "int", n |-> n]

ListValue(items) == [kind |-> "list", items |-> items]

\* bool(value): '', 0, [] and None are false.
Truthy(v) ==
    CASE v.kind = "str"  -> v.s # <<>>
      [] v.kind = "int"  -> v.n # 0
      [] v.kind = "list" -> v.items # <<>>
      [] OTHER           -> FALSE

\* str(v) of a str or of an int below ten.
Digit(n) == <<"0", "1", "2", "3", "4", "5", "6", "7", "8", "9">>[n + 1]

ToStr(v) == IF v.kind = "int" THEN <<Digit(v.n)>> ELSE v.s

\* cand in s, for two strs.
Contains(s, cand) ==
    \E i \in 0..(Len(s) - Len(cand)) : SubSeq(s, i + 1, i + Len(cand)) = cand

\* str.rfind of a character: the last position it is at, 0 for none.
LastIndex(s, ch) ==
    IF \E i \in 1..Len(s) : s[i] = ch
    THEN CHOOSE i \in 1..Len(s) : s[i] = ch /\ \A j \in (i + 1)..Len(s) : s[j] # ch
    ELSE 0

\* os.path.basename: what follows the last slash.
Basename(path) == SubSeq(path, LastIndex(path, "/") + 1, Len(path))

\* os.path.splitext(path)[0]: the path up to its last dot, when that dot
\* comes after the last slash and after a character of the file name that
\* is no dot; the whole path otherwise.
SplitextRoot(path) ==
    LET sepIndex == LastIndex(path, "/")
        dotIndex == LastIndex(path, ".")
    IN  IF /\ dotIndex > sepIndex
           /\ \E i \in (sepIndex + 1)..(dotIndex - 1) : path[i] # "."
        THEN SubSeq(path, 1, dotIndex - 1)
        ELSE path

\* A _normalize_doc_ids that keeps the identifier as it was given and
\* derives nothing from it.
_normalize_doc_ids_raw_only(raw_id) ==
    IF raw_id = NoDocId \/ raw_id = <<>>
    THEN {}
    ELSE {raw_id}

\* question_answer_agent.py 97-101.
_normalize_doc_ids(raw_id) ==
    IF raw_id = NoDocId \/ raw_id = <<>>
    THEN {}
    ELSE LET bn == Basename(raw_id)
         IN  {raw_id, bn, SplitextRoot(bn)}

\* The metadata keys _doc_matches looks at (question_answer_agent.py 106).
TrackedKeys == {"doc_id", "source", "file_name", "source_id", "source_filename"}

\* dict.get(key) and dict.get(key, default).
Get(metadata, key) == IF key \in DOMAIN metadata THEN metadata[key] ELSE NoValue

GetOr(metadata, key, default) ==
    IF key \in DOMAIN metadata THEN metadata[key] ELSE default

\* question_answer_agent.py 110: a list is gone through, anything else is
\* taken as one value.
Vals(val) ==
    IF val.kind = "list"
    THEN {Str(val.items[i]) : i \in 1..Len(val.items)}
    ELSE {val}

\* A _doc_matches that looks at the "doc_id" key only.
_doc_matches_doc_id_only(a, metadata) ==
    IF a.doc_id = NoDocId \/ a.doc_id = <<>> \/ a._doc_id_candidates = {}
    THEN TRUE
    ELSE LET val == Get(metadata, "doc_id")
         IN  /\ Truthy(val)
             /\ \E cand \in a._doc_id_candidates : \E v \in Vals(val) :
                   Contains(ToStr(v), cand)

\* A _doc_matches that asks for a value equal to a candidate instead of one
\* that contains it.
_doc_matches_equality(a, metadata) ==
    IF a.doc_id = NoDocId \/ a.doc_id = <<>> \/ a._doc_id_candidates = {}
    THEN TRUE
    ELSE \E key \in TrackedKeys :
            LET val == Get(metadata, key)
            IN  /\ Truthy(val)
                /\ \E cand \in a._doc_id_candidates : \E v \in Vals(val) :
                      ToStr(v) = cand

\* question_answer_agent.py 103-113.
_doc_matches(a, metadata) ==
    IF a.doc_id = NoDocId \/ a.doc_id = <<>> \/ a._doc_id_candidates = {}
    THEN TRUE
    ELSE \E key \in TrackedKeys :
            LET val == Get(metadata, key)
            IN  /\ Truthy(val)
                /\ \E cand \in a._doc_id_candidates : \E v \in Vals(val) :
                      Contains(ToStr(v), cand)

\* A filter that is applied whether or not a document identifier is set,
\* and keeps the chunks whose "doc_id" equals the session's.
FilterByEquality(a, docs) ==
    SelectSeq(docs, LAMBDA d :
        Get(d.metadata, "doc_id") =
            (IF a.doc_id = NoDocId THEN NoValue ELSE Str(a.doc_id)))

\* question_answer_agent.py 137-140: the chunks kept for the context.
Filter(a, docs) ==
    IF a.doc_id = NoDocId \/ a.doc_id = <<>>
    THEN docs
    ELSE SelectSeq(docs, LAMBDA d : _doc_matches(a, d.metadata))

\* a or b.
Or(a, b) == IF Truthy(a) THEN a ELSE b

\* A _format_context that labels the chunks with enumerate's own count,
\* which starts at 0.
_format_context_from_zero(label, docs) ==
    IF docs = <<>>
    THEN <<[kind |-> "no_context", label |-> label]>>
    ELSE [i \in 1..Len(docs) |->
            LET meta == docs[i].metadata
            IN  [kind |-> "chunk",
                 label |-> label,
                 n |-> i - 1,
                 doc_type |-> GetOr(meta, "type", Str(<<"r", "a", "w">>)),
                 src |-> Or(Get(meta, "source"),
                            Or(Get(meta, "file_name"),
                               Or(Get(meta, "doc_id"),
                                  Str(<<"u", "n", "k", "n", "o", "w", "n">>)))),
                 text |-> Strip(docs[i].page_content)]]

\* question_answer_agent.py 79-95: one entry per chunk, labelled with the
\* block's letter and the chunk's position, or the one line that says there
\* is no context.
_format_context(label, docs) ==
    IF docs = <<>>
    THEN <<[kind |-> "no_context", label |-> label]>>
    ELSE [i \in 1..Len(docs) |->
            LET meta == docs[i].metadata
            IN  [kind |-> "chunk",
                 label |-> label,
                 n |-> (i - 1) + 1,
                 doc_type |-> GetOr(meta, "type", Str(<<"r", "a", "w">>)),
                 src |-> Or(Get(meta, "source"),
                            Or(Get(meta, "file_name"),
                               Or(Get(meta, "doc_id"),
                                  Str(<<"u", "n", "k", "n", "o", "w", "n">>)))),
                 text |-> Strip(docs[i].page_content)]]

\* history[-n:]: the last n entries, and the whole list when n is 0 (-0 is 0).
LastN(seq, n) ==
    IF n = 0 \/ n >= Len(seq)
    THEN seq
    ELSE SubSeq(seq, Len(seq) - n + 1, Len(seq))

\* An answer that cuts the history from the wrong end: it keeps the oldest
\* max_history * 2 entries.
UpdatedHistoryKeepsOldest(a, h, question, content) ==
    LET extended == h \o <<[role |-> "human", content |-> question],
                           [role |-> "ai", content |-> content]>>
    IN  IF Len(extended) > a.max_history * 2
        THEN SubSeq(extended, 1, a.max_history * 2)
        ELSE extended

\* question_answer_agent.py 164-166.
UpdatedHistory(a, h, question, content) ==
    LET extended == h \o <<[role |-> "human", content |-> question],
                           [role |-> "ai", content |-> content]>>
    IN  IF Len(extended) > a.max_history * 2
        THEN LastN(extended, a.max_history * 2)
        ELSE extended

\* The chunks of the model's vector store.
Chunk(text, metadata) ==
    [page_content |-> [text |-> text, upper |-> FALSE, padded |-> TRUE],
     metadata |-> metadata]

ChunkPool ==
    {Chunk("c1", [source |-> Str(<<"d", "/", "a", ".", "p">>)]),
     Chunk("c2", [doc_id |-> Str(<<"b">>),
                  file_name |-> ListValue(<<<<"z">>, <<"d", "/", "a", ".", "p">>>>),
                  type |-> Str(<<"s">>)]),
     Chunk("c3", [source |-> Str(<<>>), source_id |-> IntValue(7),
                  page |-> IntValue(0)])}

\* The document identifiers a QAAgent is made with: none, the empty str, a
\* file's stem, a path, an identifier of another document, an identifier
\* that ends with a slash, a number.
DocIds ==
    {NoDocId, <<>>, <<"a">>, <<"d", "/", "a", ".", "p">>, <<"b">>,
     <<"z", "z">>, <<"q", "/">>, <<"7">>}

\* The values of max_history a QAAgent is made with.
MaxHistories == {0, 1, 2}

Questions == {"q1", "q2"}

\* The content the model answers with: a text with white space around it.
Contents == [text : {"answer"}, upper : {FALSE}, padded : {TRUE}]

\* What a retriever can hand back: up to MaxRetrieved different chunks of the
\* index, in any order.
Retrievals(ix) ==
    UNION {{docs \in [1..n -> ix] :
               \A i, j \in 1..n : docs[i] = docs[j] => i = j} :
           n \in 0..MaxRetrieved}

NoCall ==
    [question |-> "", analysis_failed |-> FALSE, raw_failed |-> FALSE,
     retrieved_analysis |-> <<>>, retrieved_raw |-> <<>>,
     analysis_docs |-> <<>>, raw_docs |-> <<>>,
     analysis_context |-> <<>>, raw_context |-> <<>>,
     prompt_history |-> <<>>]

\* question_answer_agent.py 19-56: QAAgent(doc_id=..., max_history=...).
NewAgent(doc_id, max_history) ==
    [doc_id |-> doc_id,
     max_history |-> max_history,
     _doc_id_candidates |-> _normalize_doc_ids(doc_id)]

\* No QAAgent has been made.
NoSession ==
    /\ index = {}
    /\ agent = [s \in Sessions |-> NewAgent(NoDocId, 0)]
    /\ history = [s \in Sessions |-> <<>>]
    /\ qa_pc = [s \in Sessions |-> "none"]
    /\ call = [s \in Sessions |-> NoCall]
    /\ calls = [s \in Sessions |-> 0]
    /\ outcome = [s \in Sessions |-> [kind |-> "none", value |-> Literal("")]]

\* One QAAgent has been made, over a store that holds the chunks of
\* several documents.
QAInit ==
    /\ index = ChunkPool
    /\ \E d \in DocIds, m \in MaxHistories :
          agent = [s \in Sessions |-> IF s = "s1" THEN NewAgent(d, m)
                                      ELSE NewAgent(NoDocId, 0)]
    /\ history = [s \in Sessions |-> <<>>]
    /\ qa_pc = [s \in Sessions |-> IF s = "s1" THEN "idle" ELSE "none"]
    /\ call = [s \in Sessions |-> NoCall]
    /\ calls = [s \in Sessions |-> 0]
    /\ outcome = [s \in Sessions |-> [kind |-> "none", value |-> Literal("")]]

\* question_answer_agent.py 118-125: answer(question) is entered and asks
\* the analysis retriever.
BeginAnswer(s, question) ==
    /\ qa_pc[s] = "idle"
    /\ calls[s] < MaxCalls
    /\ calls' = [calls EXCEPT ![s] = @ + 1]
    /\ call' = [call EXCEPT ![s] = [NoCall EXCEPT !.question = question]]
    /\ outcome' = [outcome EXCEPT ![s] = [kind |-> "none", value |-> Literal("")]]
    /\ qa_pc' = [qa_pc EXCEPT ![s] = "retrieve_analysis"]
    /\ UNCHANGED <<index, agent, history>>
    /\ UNCHANGED otherThanQA

\* question_answer_agent.py 124-132: the analysis retriever hands back its
\* chunks, or raises and the list is empty; the raw retriever is asked.
RetrieveAnalysis(s, docs, failed) ==
    /\ qa_pc[s] = "retrieve_analysis"
    /\ failed => docs = <<>>
    /\ call' = [call EXCEPT ![s].analysis_failed = failed,
                            ![s].retrieved_analysis = docs,
                            ![s].analysis_docs = docs]
    /\ qa_pc' = [qa_pc EXCEPT ![s] = "retrieve_raw"]
    /\ UNCHANGED <<index, agent, history, calls, outcome>>
    /\ UNCHANGED otherThanQA

\* An answer whose raw retrieval has no handler: the retriever's exception
\* leaves answer.
RetrieveRawNoHandler(s, docs, failed) ==
    /\ qa_pc[s] = "retrieve_raw"
    /\ failed => docs = <<>>
    /\ IF failed
       THEN /\ outcome' = [outcome EXCEPT ![s] = [kind |-> "raised",
                                                 value |-> Literal("")]]
            /\ call' = [call EXCEPT ![s] = NoCall]
            /\ qa_pc' = [qa_pc EXCEPT ![s] = "idle"]
       ELSE /\ LET analysis_docs == Filter(agent[s], call[s].analysis_docs)
                   raw_docs == Filter(agent[s], docs)
               IN  call' = [call EXCEPT
                               ![s].raw_failed = failed,
                               ![s].retrieved_raw = docs,
                               ![s].analysis_docs = analysis_docs,
                               ![s].raw_docs = raw_docs,
                               ![s].analysis_context = _format_context("A", analysis_docs),
                               ![s].raw_context = _format_context("D", raw_docs),
                               ![s].prompt_history = LastN(history[s], agent[s].max_history)]
            /\ qa_pc' = [qa_pc EXCEPT ![s] = "invoke"]
            /\ UNCHANGED outcome
    /\ UNCHANGED <<index, agent, history, calls>>
    /\ UNCHANGED otherThanQA

\* question_answer_agent.py 131-161: the raw retriever hands back its
\* chunks, or raises and the list is empty; both lists are filtered, both
\* contexts are formatted, the messages are built and the model is invoked.
RetrieveRaw(s, docs, failed) ==
    /\ qa_pc[s] = "retrieve_raw"
    /\ failed => docs = <<>>
    /\ LET analysis_docs == Filter(agent[s], call[s].analysis_docs)
           raw_docs == Filter(agent[s], docs)
       IN  call' = [call EXCEPT
                       ![s].raw_failed = failed,
                       ![s].retrieved_raw = docs,
                       ![s].analysis_docs = analysis_docs,
                       ![s].raw_docs = raw_docs,
                       ![s].analysis_context = _format_context("A", analysis_docs),
                       ![s].raw_context = _format_context("D", raw_docs),
                       ![s].prompt_history = LastN(history[s], agent[s].max_history)]
    /\ qa_pc' = [qa_pc EXCEPT ![s] = "invoke"]
    /\ UNCHANGED <<index, agent, history, calls, outcome>>
    /\ UNCHANGED otherThanQA

\* A QAAgent whose history is one list of the class: the turn of a call
\* is written to the history of every session.
InvokeReturnsClassHistory(s, content) ==
    /\ qa_pc[s] = "invoke"
    /\ history' = [t \in Sessions |->
                      UpdatedHistory(agent[s], history[s], call[s].question,
                                     content)]
    /\ outcome' = [outcome EXCEPT ![s] = [kind |-> "returned",
                                         value |-> Strip(content)]]
    /\ call' = [call EXCEPT ![s] = NoCall]
    /\ qa_pc' = [qa_pc EXCEPT ![s] = "idle"]
    /\ UNCHANGED <<index, agent, calls>>
    /\ UNCHANGED otherThanQA

\* question_answer_agent.py 161-171: the model answers, the turn is added
\* to the history, the history is cut and the stripped content is returned.
InvokeReturns(s, content) ==
    /\ qa_pc[s] = "invoke"
    /\ history' = [history EXCEPT ![s] =
                      UpdatedHistory(agent[s], @, call[s].question, content)]
    /\ outcome' = [outcome EXCEPT ![s] = [kind |-> "returned",
                                         value |-> Strip(content)]]
    /\ call' = [call EXCEPT ![s] = NoCall]
    /\ qa_pc' = [qa_pc EXCEPT ![s] = "idle"]
    /\ UNCHANGED <<index, agent, calls>>
    /\ UNCHANGED otherThanQA

\* An answer that records the question before it asks the model: the
\* question stays in the history when llm.invoke raises.
InvokeRaisesAfterAppend(s) ==
    /\ qa_pc[s] = "invoke"
    /\ history' = [history EXCEPT ![s] =
                      Append(@, [role |-> "human", content |-> call[s].question])]
    /\ outcome' = [outcome EXCEPT ![s] = [kind |-> "raised",
                                         value |-> Literal("")]]
    /\ call' = [call EXCEPT ![s] = NoCall]
    /\ qa_pc' = [qa_pc EXCEPT ![s] = "idle"]
    /\ UNCHANGED <<index, agent, calls>>
    /\ UNCHANGED otherThanQA

\* question_answer_agent.py 161: llm.invoke raises, and answer has no
\* handler around it.
InvokeRaises(s) ==
    /\ qa_pc[s] = "invoke"
    /\ outcome' = [outcome EXCEPT ![s] = [kind |-> "raised",
                                         value |-> Literal("")]]
    /\ call' = [call EXCEPT ![s] = NoCall]
    /\ qa_pc' = [qa_pc EXCEPT ![s] = "idle"]
    /\ UNCHANGED <<index, agent, history, calls>>
    /\ UNCHANGED otherThanQA

QANext ==
    \/ \E s \in Sessions, question \in Questions : BeginAnswer(s, question)
    \/ \E s \in Sessions, docs \in Retrievals(index), failed \in BOOLEAN :
          RetrieveAnalysis(s, docs, failed)
    \/ \E s \in Sessions, docs \in Retrievals(index), failed \in BOOLEAN :
          RetrieveRaw(s, docs, failed)
    \/ \E s \in Sessions, content \in Contents : InvokeReturns(s, content)
    \/ \E s \in Sessions : InvokeRaises(s)

-----------------------------------------------------------------------------
(***************************************************************************)
(*                      main.py: the /ask route                            *)
(***************************************************************************)

\* question_answer_agent.py 26: the max_history of a QAAgent made without
\* one, as ask_question makes it.
DefaultMaxHistory == 6

\* The session ask_question makes for its request.
AskSession == "s1"

\* No request to /ask has arrived.
NoAsk ==
    ask = [pc |-> "none", document_id |-> NoDocId, question |-> "",
           found |-> FALSE, status_code |-> 0, detail |-> "",
           answer |-> Literal("")]

\* A request to /ask is about to be served; no QAAgent exists yet.
AskInit ==
    /\ index = ChunkPool
    /\ agent = [s \in Sessions |-> NewAgent(NoDocId, 0)]
    /\ history = [s \in Sessions |-> <<>>]
    /\ qa_pc = [s \in Sessions |-> "none"]
    /\ call = [s \in Sessions |-> NoCall]
    /\ calls = [s \in Sessions |-> 0]
    /\ outcome = [s \in Sessions |-> [kind |-> "none", value |-> Literal("")]]
    /\ ask = [pc |-> "idle", document_id |-> NoDocId, question |-> "",
              found |-> FALSE, status_code |-> 0, detail |-> "",
              answer |-> Literal("")]

\* main.py 193-204: ask_question looks for the uploaded file of the
\* document.  Without one it raises HTTPException(404) inside its try, and
\* its own "except Exception" catches that exception (an HTTPException is an
\* Exception) and raises HTTPException(500) with the text of the first.
\* With one it makes a QAAgent for the document and calls answer.
AskQuestion(document_id, question, found) ==
    /\ ask.pc = "idle"
    /\ IF ~ found
       THEN /\ ask' = [ask EXCEPT !.pc = "done",
                                  !.document_id = document_id,
                                  !.question = question,
                                  !.found = FALSE,
                                  !.status_code = 500,
                                  !.detail = "str(HTTPException(404, 'Document not found'))"]
            /\ UNCHANGED qaVars
       ELSE /\ ask' = [ask EXCEPT !.pc = "answering",
                                  !.document_id = document_id,
                                  !.question = question,
                                  !.found = TRUE]
            /\ agent' = [agent EXCEPT ![AskSession] =
                            NewAgent(document_id, DefaultMaxHistory)]
            /\ history' = [history EXCEPT ![AskSession] = <<>>]
            /\ calls' = [calls EXCEPT ![AskSession] = 1]
            /\ call' = [call EXCEPT ![AskSession] =
                            [NoCall EXCEPT !.question = question]]
            /\ outcome' = [outcome EXCEPT ![AskSession] =
                              [kind |-> "none", value |-> Literal("")]]
            /\ qa_pc' = [qa_pc EXCEPT ![AskSession] = "retrieve_analysis"]
            /\ UNCHANGED index
    /\ UNCHANGED otherThanAsk

\* main.py 204-209: answer is an ordinary function (question_answer_agent.py
\* 118), so qa_agent.answer(question) has run to its end when "await" is
\* applied to what it returned.  An exception of answer goes to the handler;
\* a returned str is no awaitable, so "await" raises TypeError, which goes
\* to the handler as well: the return of line 206 is not reached.
AskReplies ==
    /\ ask.pc = "answering"
    /\ qa_pc[AskSession] = "idle"
    /\ outcome[AskSession].kind \in {"returned", "raised"}
    /\ ask' = [ask EXCEPT
                  !.pc = "done",
                  !.status_code = 500,
                  !.detail = IF outcome[AskSession].kind = "raised"
                             THEN "str(the exception of answer)"
                             ELSE "str(TypeError: object str can't be used in 'await' expression)"]
    /\ UNCHANGED qaVars
    /\ UNCHANGED otherThanAsk

AskNext ==
    \/ \E document_id \in DocIds \ {NoDocId}, question \in Questions,
          found \in BOOLEAN : AskQuestion(document_id, question, found)
    \/ \E s \in Sessions, docs \in Retrievals(index), failed \in BOOLEAN :
          RetrieveAnalysis(s, docs, failed)
    \/ \E s \in Sessions, docs \in Retrievals(index), failed \in BOOLEAN :
          RetrieveRaw(s, docs, failed)
    \/ \E s \in Sessions, content \in Contents : InvokeReturns(s, content)
    \/ \E s \in Sessions : InvokeRaises(s)
    \/ AskReplies

-----------------------------------------------------------------------------
(***************************************************************************)
(*            tools/document_processor.py: the ingestion                   *)
(***************************************************************************)

\* How many pages a file has at most, and the largest batch_size and
\* chunk_size (in characters) a DocumentProcessorTools is made with.
MaxPages == 2

MaxBatchSize == 2

MaxChunkSize == 2

\* The paths process_document is called with: a str is the sequence of its
\* characters.
Paths ==
    {<<"a", ".", "p", "d", "f">>, <<"a", ".", "P", "D", "F">>,
     <<"a", ".", "d", "o", "c", "x">>, <<"a", ".", "p", "n", "g">>,
     <<"a", ".", "t", "x", "t">>, <<"a">>, <<"p", "d", "f">>}

\* The texts of a page, of an image and of a store_metadata content: none,
\* white space, one and two characters.
Texts == {<<>>, <<" ">>, <<"t">>, <<"t", "t">>}

PageLists == UNION {[1..n -> Texts] : n \in 0..MaxPages}

\* A file as process_document finds it: whether the path exists, whether
\* its loader can read it, and the text of its pages.
Files ==
    [path : Paths, exists : {FALSE}, readable : {FALSE}, pages : {<<>>}]
    \cup [path : Paths, exists : {TRUE}, readable : {FALSE}, pages : {<<>>}]
    \cup [path : Paths, exists : {TRUE}, readable : {TRUE}, pages : PageLists]

NoFile == [path |-> <<>>, exists |-> FALSE, readable |-> FALSE, pages |-> <<>>]

\* str.lower(), for the letters of the model's paths.
LowerChar(c) ==
    CASE c = "P" -> "p"
      [] c = "D" -> "d"
      [] c = "F" -> "f"
      [] OTHER   -> c

LowerChars(s) == [i \in 1..Len(s) |-> LowerChar(s[i])]

\* str.strip(): the white space at both ends is gone.
RECURSIVE StripChars(_)
StripChars(s) ==
    IF s = <<>>
    THEN s
    ELSE IF Head(s) = " "
         THEN StripChars(Tail(s))
         ELSE IF s[Len(s)] = " "
              THEN StripChars(SubSeq(s, 1, Len(s) - 1))
              ELSE s

\* " ".join(texts).
RECURSIVE Join(_)
Join(texts) ==
    IF texts = <<>>
    THEN <<>>
    ELSE IF Len(texts) = 1
         THEN texts[1]
         ELSE texts[1] \o <<" ">> \o Join(Tail(texts))

\* The concatenation of a list of lists.
RECURSIVE Flatten(_)
Flatten(lists) ==
    IF lists = <<>> THEN <<>> ELSE Head(lists) \o Flatten(Tail(lists))

\* langchain's Document, and the metadata of a Document made without any.
Document(page_content, metadata) ==
    [page_content |-> page_content, metadata |-> metadata]

NoMetadata == [key \in {} |-> NoValue]

\* document_processor.py 36: file_path.split('.')[-1].lower(), what follows
\* the last dot, and the whole path when it has no dot.
Ext(file_path) ==
    LowerChars(SubSeq(file_path, LastIndex(file_path, ".") + 1, Len(file_path)))

\* What a call can hand back: the value returned, or the exception raised.
Returned(value) == [raised |-> FALSE, exc |-> "", value |-> value]

Raised(exc) == [raised |-> TRUE, exc |-> exc, value |-> <<>>]

\* A load_document_parallel that reads a file of any other type as text
\* instead of raising.
load_document_parallel_any_type(file) ==
    LET ext == Ext(file.path)
    IN  IF ~ file.readable
        THEN Raised("cannot read the file")
        ELSE IF ext = <<"p", "d", "f">>
             THEN LET pages == [i \in 1..Len(file.pages) |->
                                   Document(StripChars(file.pages[i]),
                                            [source |-> Str(file.path),
                                             page |-> IntValue(i - 1)])]
                  IN  Returned(SelectSeq(pages, LAMBDA d : d.page_content # <<>>))
             ELSE IF ext = <<"d", "o", "c", "x">>
                  THEN Returned(<<Document(Join(file.pages),
                                           [source |-> Str(file.path)])>>)
                  ELSE Returned(<<Document(Join(file.pages), NoMetadata)>>)

\* document_processor.py 35-51.  PyPDFLoader.load_and_split hands back the
\* pages that hold text, with their source and page number; Docx2txtLoader
\* one Document with the file's text; the OCR of an image one Document with
\* no metadata; each of them raises on a file it cannot read.
load_document_parallel(file) ==
    LET ext == Ext(file.path)
    IN  IF ext = <<"p", "d", "f">>
        THEN IF ~ file.readable
             THEN Raised("cannot read the file")
             ELSE LET pages == [i \in 1..Len(file.pages) |->
                                   Document(StripChars(file.pages[i]),
                                            [source |-> Str(file.path),
                                             page |-> IntValue(i - 1)])]
                  IN  Returned(SelectSeq(pages, LAMBDA d : d.page_content # <<>>))
        ELSE IF ext = <<"d", "o", "c", "x">>
             THEN IF ~ file.readable
                  THEN Raised("cannot read the file")
                  ELSE Returned(<<Document(Join(file.pages),
                                           [source |-> Str(file.path)])>>)
             ELSE IF ext \in {<<"p", "n", "g">>, <<"j", "p", "g">>,
                              <<"j", "p", "e", "g">>}
                  THEN IF ~ file.readable
                       THEN Raised("cannot read the file")
                       ELSE Returned(<<Document(Join(file.pages), NoMetadata)>>)
                  ELSE Raised("Unsupported file type")

\* RecursiveCharacterTextSplitter.split_text: the text without the white
\* space around it, cut into pieces of at most chunk_size characters; no
\* piece is empty.
split_text(chunk_size, text) ==
    LET stripped == StripChars(text)
        n == Len(stripped)
        pieces == [k \in 1..((n + chunk_size - 1) \div chunk_size) |->
                      StripChars(SubSeq(stripped, (k - 1) * chunk_size + 1,
                                        IF k * chunk_size < n
                                        THEN k * chunk_size ELSE n))]
    IN  SelectSeq(pieces, LAMBDA piece : piece # <<>>)

\* splitter.split_documents: the pieces of each document, in order, each
\* with the metadata of its document.
split_documents(chunk_size, documents) ==
    Flatten([i \in 1..Len(documents) |->
                LET pieces == split_text(chunk_size, documents[i].page_content)
                IN  [k \in 1..Len(pieces) |->
                        Document(pieces[k], documents[i].metadata)]])

\* document_processor.py 61-66: executor.map keeps the order of the
\* documents.
chunk_documents_parallel(chunk_size, documents) ==
    IF Len(documents) <= 1
    THEN split_documents(chunk_size, documents)
    ELSE Flatten([i \in 1..Len(documents) |->
                     split_documents(chunk_size, <<documents[i]>>)])

\* The arguments of store_metadata.
MetaTypes == {<<"s">>}

SourceFiles == {<<"a", ".", "p", "d", "f">>,
                <<"u", "n", "k", "n", "o", "w", "n">>}

\* A chunk an earlier call has left in the vector store.
EarlierChunk == Document(<<"e">>, [source |-> Str(<<"e", ".", "p", "d", "f">>)])

\* The calls.
NoCallYet ==
    [op |-> "none", file |-> NoFile, content |-> <<>>, meta_type |-> <<>>,
     source_file |-> <<>>]

ProcessDocumentCall(file) == [NoCallYet EXCEPT !.op = "process_document",
                                               !.file = file]

StoreMetadataCall(content, meta_type, source_file) ==
    [op |-> "store_metadata", file |-> NoFile, content |-> content,
     meta_type |-> meta_type, source_file |-> source_file]

Pending == [pending |-> TRUE]

\* No DocumentProcessorTools has been made.
NoIngest ==
    /\ tool = [batch_size |-> 1, chunk_size |-> 1]
    /\ vectordb = <<>>
    /\ dp_pc = "none"
    /\ dp_call = NoCallYet
    /\ dp_chunks = <<>>
    /\ dp_i = 0
    /\ writes = <<>>
    /\ dp_result = Pending

\* document_processor.py 24-32: a DocumentProcessorTools over a vector
\* store that is empty or holds what an earlier call has written.
IngestInit ==
    /\ tool \in [batch_size : 1..MaxBatchSize, chunk_size : 1..MaxChunkSize]
    /\ vectordb \in {<<>>, <<EarlierChunk>>}
    /\ dp_pc = "idle"
    /\ dp_call = NoCallYet
    /\ dp_chunks = <<>>
    /\ dp_i = 0
    /\ writes = <<>>
    /\ dp_result = Pending

\* The call returns value.
Return(value) ==
    /\ dp_result' = value
    /\ dp_pc' = "done"

\* document_processor.py 99-110: process_document up to its call of
\* store_in_vectordb_batch.
ProcessDocument(file) ==
    /\ dp_pc = "idle"
    /\ dp_call' = ProcessDocumentCall(file)
    /\ IF ~ file.exists
       THEN /\ Return([error |-> "File not found"])
            /\ UNCHANGED dp_chunks
       ELSE LET loaded == load_document_parallel(file)
            IN  IF loaded.raised
                THEN /\ Return([error |-> loaded.exc])
                     /\ UNCHANGED dp_chunks
                ELSE IF loaded.value = <<>>
                     THEN /\ Return([error |-> "No text extracted from document."])
                          /\ UNCHANGED dp_chunks
                     ELSE /\ dp_chunks' = chunk_documents_parallel(tool.chunk_size,
                                                                  loaded.value)
                          /\ dp_pc' = "get_vectordb"
                          /\ UNCHANGED dp_result
    /\ UNCHANGED <<tool, vectordb, dp_i, writes>>
    /\ UNCHANGED otherThanIngest

\* document_processor.py 125-133: store_metadata up to its call of
\* store_in_vectordb_batch.
StoreMetadata(content, meta_type, source_file) ==
    /\ dp_pc = "idle"
    /\ dp_call' = StoreMetadataCall(content, meta_type, source_file)
    /\ IF StripChars(content) = <<>>
       THEN /\ Return([error |-> "Empty content, nothing to store."])
            /\ UNCHANGED dp_chunks
       ELSE /\ dp_chunks' = <<Document(content, [type |-> Str(meta_type),
                                                 source |-> Str(source_file)])>>
            /\ dp_pc' = "get_vectordb"
            /\ UNCHANGED dp_result
    /\ UNCHANGED <<tool, vectordb, dp_i, writes>>
    /\ UNCHANGED otherThanIngest

\* An exception inside store_in_vectordb_batch: process_document catches it
\* and returns its text (document_processor.py 120-122), store_metadata has
\* no handler and raises it.
StoreRaises(exc) ==
    IF dp_call.op = "process_document"
    THEN Return([error |-> exc])
    ELSE Return([raised |-> exc])

\* document_processor.py 92 and 69-89: get_vectordb opens the store, or
\* fails to, the second attempt of its handler included.
GetVectordb(raises) ==
    /\ dp_pc = "get_vectordb"
    /\ IF raises
       THEN StoreRaises("get_vectordb failed")
       ELSE /\ dp_pc' = "add_documents"
            /\ UNCHANGED dp_result
    /\ dp_i' = 0
    /\ UNCHANGED <<tool, vectordb, dp_call, dp_chunks, writes>>
    /\ UNCHANGED otherThanIngest

\* A store_in_vectordb_batch that goes on with the next batch when a write
\* fails.
AddDocumentsSkipsFailed(raises) ==
    /\ dp_pc = "add_documents"
    /\ dp_i < Len(dp_chunks)
    /\ LET last == IF dp_i + tool.batch_size < Len(dp_chunks)
                   THEN dp_i + tool.batch_size ELSE Len(dp_chunks)
           batch == SubSeq(dp_chunks, dp_i + 1, last)
       IN  IF raises
           THEN UNCHANGED <<vectordb, writes>>
           ELSE /\ vectordb' = vectordb \o batch
                /\ writes' = Append(writes, batch)
    /\ dp_i' = dp_i + tool.batch_size
    /\ UNCHANGED <<tool, dp_pc, dp_call, dp_chunks, dp_result>>
    /\ UNCHANGED otherThanIngest

\* document_processor.py 93-94: one turn of the loop writes the batch
\* chunks[i:i+batch_size], or add_documents raises and nothing of the batch
\* is written.
AddDocuments(raises) ==
    /\ dp_pc = "add_documents"
    /\ dp_i < Len(dp_chunks)
    /\ LET last == IF dp_i + tool.batch_size < Len(dp_chunks)
                   THEN dp_i + tool.batch_size ELSE Len(dp_chunks)
           batch == SubSeq(dp_chunks, dp_i + 1, last)
       IN  IF raises
           THEN /\ StoreRaises("add_documents failed")
                /\ UNCHANGED <<vectordb, writes, dp_i>>
           ELSE /\ vectordb' = vectordb \o batch
                /\ writes' = Append(writes, batch)
                /\ dp_i' = dp_i + tool.batch_size
                /\ UNCHANGED <<dp_pc, dp_result>>
    /\ UNCHANGED <<tool, dp_call, dp_chunks>>
    /\ UNCHANGED otherThanIngest

\* document_processor.py 95-96 and 111-118, 134-139: the loop is over, the
\* store is persisted and the call returns its record.
Persist(raises) ==
    /\ dp_pc = "add_documents"
    /\ dp_i >= Len(dp_chunks)
    /\ IF raises
       THEN StoreRaises("persist failed")
       ELSE IF dp_call.op = "process_document"
            THEN LET documents == load_document_parallel(dp_call.file).value
                     extracted_text ==
                         Join([i \in 1..Len(documents) |-> documents[i].page_content])
                 IN  Return([file_name |-> Basename(dp_call.file.path),
                             num_chunks |-> Len(dp_chunks),
                             vector_db_path |-> "vector_store",
                             extracted_text |-> extracted_text])
            ELSE Return([status |-> "success",
                         stored_type |-> dp_call.meta_type,
                         source_file |-> dp_call.source_file,
                         vector_db_path |-> "vector_store"])
    /\ UNCHANGED <<tool, vectordb, dp_call, dp_chunks, dp_i, writes>>
    /\ UNCHANGED otherThanIngest

IngestNext ==
    \/ \E file \in Files : ProcessDocument(file)
    \/ \E content \in Texts, meta_type \in MetaTypes, source_file \in SourceFiles :
          StoreMetadata(content, meta_type, source_file)
    \/ \E raises \in BOOLEAN : GetVectordb(raises)
    \/ \E raises \in BOOLEAN : AddDocuments(raises)
    \/ \E raises \in BOOLEAN : Persist(raises)

\* The pipeline alone: the graph is not run.
PipeOnlyInit == PipeInit /\ GraphInit /\ NoSession /\ NoIngest /\ NoAsk

PipeSpec == PipeOnlyInit /\ [][PipeNext]_vars

\* The graph alone: no request is served.
GraphOnlyInit == NoRequest /\ GraphInit /\ NoSession /\ NoIngest /\ NoAsk

GraphSpec == GraphOnlyInit /\ [][GraphNext]_vars

\* The graph's runtime runs the next node as long as there is one.
GraphFairness == WF_vars(GraphNext)

FairGraphSpec == GraphOnlyInit /\ [][GraphNext]_vars /\ GraphFairness

\* The metadata _doc_matches is tried on, one chunk each: no tracked key
\* (with values that hold candidates under other keys), no key at all, a
\* decorated path under the last tracked key, a list with a file name, an
\* empty value before a key that matches, a number, a name in upper
\* case, an empty list.
MetadataPool ==
    {Chunk("m1", [page |-> IntValue(7), type |-> Str(<<"a">>),
                  title |-> Str(<<"d", "/", "a", ".", "p">>)]),
     Chunk("m2", [key \in {} |-> NoValue]),
     Chunk("m3", [source_filename |->
                     Str(<<"x", "/", "d", "/", "a", ".", "p", "!">>)]),
     Chunk("m4", [file_name |-> ListValue(<<<<"z">>, <<"a", ".", "p">>>>)]),
     Chunk("m5", [doc_id |-> Str(<<>>), source |-> Str(<<"b">>)]),
     Chunk("m6", [source_id |-> IntValue(7)]),
     Chunk("m7", [doc_id |-> Str(<<"A">>)]),
     Chunk("m8", [source |-> ListValue(<<>>), doc_id |-> IntValue(0)])}

\* One QAAgent over a store that holds one chunk of the pool.
MatchInit ==
    /\ \E c \in MetadataPool : index = {c}
    /\ \E d \in DocIds, m \in MaxHistories :
          agent = [s \in Sessions |-> IF s = "s1" THEN NewAgent(d, m)
                                      ELSE NewAgent(NoDocId, 0)]
    /\ history = [s \in Sessions |-> <<>>]
    /\ qa_pc = [s \in Sessions |-> IF s = "s1" THEN "idle" ELSE "none"]
    /\ call = [s \in Sessions |-> NoCall]
    /\ calls = [s \in Sessions |-> 0]
    /\ outcome = [s \in Sessions |-> [kind |-> "none", value |-> Literal("")]]

MatchOnlyInit == NoRequest /\ GraphInit /\ MatchInit /\ NoIngest /\ NoAsk

\* One QA session whose retrievers hand back the chunk under test.
MatchSpec == MatchOnlyInit /\ [][QANext]_vars

\* Two QAAgents have been made, over a store of one chunk: the first for
\* one document, the second for none, each with its own max_history.
TwoSessionsInit ==
    /\ index = {Chunk("c1", [source |-> Str(<<"d", "/", "a", ".", "p">>)])}
    /\ \E m \in [Sessions -> {1, 2}] :
          agent = [s \in Sessions |->
                      NewAgent(IF s = "s1" THEN <<"a">> ELSE NoDocId, m[s])]
    /\ history = [s \in Sessions |-> <<>>]
    /\ qa_pc = [s \in Sessions |-> "idle"]
    /\ call = [s \in Sessions |-> NoCall]
    /\ calls = [s \in Sessions |-> 0]
    /\ outcome = [s \in Sessions |-> [kind |-> "none", value |-> Literal("")]]

TwoSessionsOnlyInit == NoRequest /\ GraphInit /\ TwoSessionsInit /\ NoIngest /\ NoAsk

\* Two QA sessions whose answer calls interleave.
TwoSessionsSpec == TwoSessionsOnlyInit /\ [][QANext]_vars

\* One QA session alone.
QAOnlyInit == NoRequest /\ GraphInit /\ QAInit /\ NoIngest /\ NoAsk

QASpec == QAOnlyInit /\ [][QANext]_vars

\* One request to /ask alone.
AskOnlyInit == NoRequest /\ GraphInit /\ AskInit /\ NoIngest

AskSpec == AskOnlyInit /\ [][AskNext]_vars

\* The event loop never idles while a coroutine is ready or an invocation is
\* in flight: some step of the pipeline is taken as long as one is possible.
PipeFairness == WF_vars(PipeNext)

\* A request that carries one document, through either route: one run of
\* run_pipeline, with nothing else on the event loop.
OneRunInit == PipeOnlyInit /\ Cardinality(active) = 1

FairPipeSpec == OneRunInit /\ [][PipeNext]_vars /\ PipeFairness

\* main.py has no handler for asyncio.CancelledError and no operation that
\* cancels a run; the task that serves the request can be cancelled from
\* outside (Task.cancel()), at any of its awaits.
\* The runs of the request that are still at an await, or not yet started.
InProgress(p) ==
    /\ p \in active
    /\ pc[p] \in {"idle", "await_processor", "await_gather", "await_risk",
                  "await_report"}

\* The request's task is cancelled.  asyncio throws CancelledError into
\* what each run awaits: an invocation, or the gather of main.py 84, which
\* cancels its two invocations; gather at main.py 122 does the same to the
\* runs.  CancelledError is no Exception, so the handlers of main.py 119
\* and 154 do not catch it: it leaves run_pipeline, process_single and the
\* route.
CancelRequest ==
    /\ response.status = 0
    /\ \E p \in DocumentPaths : InProgress(p)
    /\ pc' = [p \in DocumentPaths |->
                 IF InProgress(p) THEN "cancelled" ELSE pc[p]]
    /\ stage' = [p \in DocumentPaths |->
                    IF InProgress(p)
                    THEN [s \in Stages |-> IF stage[p][s] = "inflight"
                                           THEN "cancelled" ELSE stage[p][s]]
                    ELSE stage[p]]
    /\ UNCHANGED <<mode, active, invoked, input, agent_result, local,
                   completed, ret, response>>
    /\ UNCHANGED otherThanPipe

CancelNext ==
    \/ PipeNext
    \/ CancelRequest

\* The pipeline with a request that can be cancelled.
CancelSpec == PipeOnlyInit /\ [][CancelNext]_vars

\* One DocumentProcessorTools alone, through one call.
IngestOnlyInit == NoRequest /\ GraphInit /\ NoSession /\ IngestInit /\ NoAsk

IngestSpec == IngestOnlyInit /\ [][IngestNext]_vars

-----------------------------------------------------------------------------
(***************************************************************************)
(*                     The pipeline's properties                           *)
(***************************************************************************)

\* The stages whose invocation has handed back its output.
Produced(p) == {s \in Stages : stage[p][s] = "returned"}

\* The stages a step starts.
Started(p) == {s \in Stages : stage[p][s] = "idle" /\ stage'[p][s] = "inflight"}

\* The stages that come after s in the precedence order.
Later(s) ==
    CASE s = "processor"               -> {"summarizer", "clause", "risk", "report"}
      [] s \in {"summarizer", "clause"} -> {"risk", "report"}
      [] s = "risk"                    -> {"report"}
      [] OTHER                         -> {}

\* C2: the risk stage is not started before both the summarizer and the
\* clause explainer have completed, the report stage is not started before
\* the risk stage has completed, and neither the summarizer nor the clause
\* explainer is started before the processor has completed.
C2_Precedence ==
    \A p \in DocumentPaths :
        /\ stage[p]["risk"] # "idle" =>
              /\ stage[p]["summarizer"] = "returned"
              /\ stage[p]["clause"] = "returned"
        /\ stage[p]["report"] # "idle" => stage[p]["risk"] = "returned"
        /\ (stage[p]["summarizer"] # "idle" \/ stage[p]["clause"] # "idle") =>
              stage[p]["processor"] = "returned"

\* The risk stage is running in two runs whose summarizer and clause
\* explainer completed in the two possible orders.
C2_Witness ==
    /\ stage["p1"]["risk"] = "inflight"
    /\ stage["p2"]["risk"] = "inflight"
    /\ completed["p1"] = <<"processor", "summarizer", "clause">>
    /\ completed["p2"] = <<"processor", "clause", "summarizer">>

\* C3: the summarizer and the clause explainer are started by one and the
\* same step, each of them can return while the other is still in flight,
\* and neither is given a value that comes from the other.
C3_Concurrent ==
    /\ [][\A p \in DocumentPaths :
            ("summarizer" \in Started(p)) <=> ("clause" \in Started(p))]_vars
    /\ [](\A p \in DocumentPaths :
            /\ stage[p]["summarizer"] = "inflight" =>
                  ENABLED StageReturns(p, "summarizer", TRUE)
            /\ stage[p]["clause"] = "inflight" =>
                  ENABLED StageReturns(p, "clause", TRUE)
            /\ \A f \in input[p]["clause"] : f.val.src # "summarizer"
            /\ \A f \in input[p]["summarizer"] : f.val.src # "clause")

\* The clause explainer has returned while the summarizer is still in flight.
C3_Witness ==
    /\ stage["p1"]["summarizer"] = "inflight"
    /\ stage["p1"]["clause"] = "returned"
    /\ input["p1"]["clause"] # {}
    /\ pc["p1"] = "await_gather"

\* C4: once an invocation has raised, it was invoked once only, no later
\* stage of the run is ever started, the run raises (it is at the await of
\* that stage with nothing to do but raise, or has raised), it has no
\* report, and its caller gets a failure: an HTTP 500 from upload_document,
\* an error record for the path from process_single.
C4_StageFailure ==
    \A p \in DocumentPaths : \A s \in Stages :
        stage[p][s] = "raised" =>
            /\ invoked[p][s] = 1
            /\ \A t \in Later(s) : stage[p][t] = "idle"
            /\ \/ pc[p] = "raised"
               \/ s \in Awaited(pc[p]) /\ ENABLED PipelineRaises(p)
            /\ ~ ENABLED (AfterProcessor(p) \/ AfterGather(p) \/ AfterRisk(p)
                          \/ AfterReport(p))
            /\ local[p]["final_report_text"] = None
            /\ mode = "upload" =>
                  /\ response.status \in {0, 500}
                  /\ (pc[p] = "raised" /\ response.status = 0) =>
                        ENABLED UploadFails(p)
            /\ mode = "multiple" =>
                  /\ ret[p].kind \in {"pending", "error"}
                  /\ (pc[p] = "raised" /\ ret[p].kind = "pending") =>
                        ENABLED SingleFails(p)
                  /\ response.status # 0 =>
                        \E e \in response.body : e.path = p /\ e.error

\* The summarizer raised, the clause explainer returned all the same, and
\* the reply holds an error record for the path.
C4_Witness ==
    /\ stage["p1"]["summarizer"] = "raised"
    /\ stage["p1"]["clause"] = "returned"
    /\ response.status = 200
    /\ \E e \in response.body : e.path = "p1" /\ e.error

\* C5: a final message that does not parse as JSON aborts the run: its text
\* is given to no stage, and a run that returned a report saw no such
\* message.
C5_MalformedAborts ==
    \A p \in DocumentPaths :
        /\ \A t \in Stages : \A f \in input[p][t] : f.val.form # "raw"
        /\ \A s \in Stages :
              (stage[p][s] = "returned" /\ ~ agent_result[p][s][2].json) =>
                  pc[p] # "returned"

\* The precedence table: the stages to start, given the stages whose output
\* is present.
ReadySet(present) ==
    CASE present = {}                                              -> {"processor"}
      [] present = {"processor"}                                   -> {"summarizer", "clause"}
      [] present = {"processor", "summarizer", "clause"}           -> {"risk"}
      [] present = {"processor", "summarizer", "clause", "risk"}   -> {"report"}
      [] OTHER                                                     -> {}

\* C6: whenever a step starts stages, the stages it starts are the ready
\* set of the outputs present; a run that has all five outputs has returned.
C6_FixedPrecedence ==
    /\ [][\A p \in DocumentPaths :
            Started(p) # {} => Started(p) = ReadySet(Produced(p))]_vars
    /\ [](\A p \in DocumentPaths :
            (Produced(p) = Stages /\ pc[p] # "returned") => ENABLED AfterReport(p))

\* Both outputs of the second step are present and the risk stage is started.
C6_Witness ==
    /\ Produced("p1") = {"processor", "summarizer", "clause"}
    /\ stage["p1"]["risk"] = "inflight"
    /\ stage["p1"]["report"] = "idle"

\* C7: no stage is invoked twice, a run that returned has invoked each of
\* the five stages once and holds all five outputs, and every run in which
\* no invocation raises returns.
C7_Terminates ==
    /\ [](\A p \in DocumentPaths :
            /\ \A s \in Stages : invoked[p][s] <= 1
            /\ pc[p] = "returned" =>
                  /\ \A s \in Stages : invoked[p][s] = 1 /\ stage[p][s] = "returned"
                  /\ \A v \in Locals : local[p][v] # None)
    /\ \A p \in DocumentPaths :
          <>(p \in active =>
                \/ pc[p] = "returned"
                \/ \E s \in Stages : stage[p][s] = "raised")

\* A run has returned with its report.
C7_Witness ==
    /\ pc["p1"] = "returned"
    /\ \A s \in Stages : invoked["p1"][s] = 1
    /\ local["p1"]["final_report_text"] # None
    /\ response.status = 200

-----------------------------------------------------------------------------
(***************************************************************************)
(*                        The graph's properties                           *)
(***************************************************************************)

\* C1: whatever the last message, decide_next returns, and it returns a
\* known stage name or 'end'; non-JSON text and an unknown name give 'end'.
C1_DecideNextTotal ==
    g_node # "START" /\ g_route # Returns(Literal("START")) =>
        /\ ~ g_route.raised
        /\ g_route.value \in PathMap
        /\ g_last.json = "invalid" => g_route.value = Literal("end")
        /\ (g_last.ai /\ g_last.json = "object" /\ g_last.key = "string"
               /\ g_last.next_agent.text = "bogus_stage") =>
              g_route.value = Literal("end")

\* The stages whose output a stage needs (spec 4.1: ingest, then summarize
\* and explain, then risk, then report).
Dependencies(w) ==
    CASE w = "document_processor_agent" -> {}
      [] w \in {"summarizer_agent", "clause_explainer_agent"} ->
             {"document_processor_agent"}
      [] w = "risk_analysis_agent" ->
             {"document_processor_agent", "summarizer_agent",
              "clause_explainer_agent"}
      [] w = "report_generator_agent" ->
             {"document_processor_agent", "summarizer_agent",
              "clause_explainer_agent", "risk_analysis_agent"}

\* C8: a worker proposed by the supervisor runs only if the outputs it
\* depends on are present.
C8_ProposalValidated ==
    \A w \in WorkerAgents : g_node = w => Dependencies(w) \subseteq g_done

-----------------------------------------------------------------------------
(***************************************************************************)
(*                     The QA session's properties                         *)
(***************************************************************************)

\* A session made with a document identifier.
HasDocId(s) == agent[s].doc_id # NoDocId /\ agent[s].doc_id # <<>>

\* The strings that stand for document d: d, its base name, its stem.
Candidates(d) == {d, Basename(d), SplitextRoot(Basename(d))}

\* Chunk c matches document d: under a tracked key its metadata holds a
\* non-empty value, or a list with an element, that contains a candidate.
ChunkMatches(d, c) ==
    \E key \in TrackedKeys \cap DOMAIN c.metadata :
        LET val == c.metadata[key]
        IN  /\ Truthy(val)
            /\ \/ val.kind = "str" /\ \E cand \in Candidates(d) : Contains(val.s, cand)
               \/ val.kind = "int" /\ \E cand \in Candidates(d) : Contains(ToStr(val), cand)
               \/ val.kind = "list" /\ \E i \in 1..Len(val.items) :
                                         \E cand \in Candidates(d) :
                                             Contains(val.items[i], cand)

\* Chunk c carries d verbatim under a tracked key.
CarriesVerbatim(d, c) ==
    \E key \in TrackedKeys \cap DOMAIN c.metadata :
        LET val == c.metadata[key]
        IN  \/ val = Str(d)
            \/ val.kind = "list" /\ \E i \in 1..Len(val.items) : val.items[i] = d

\* The chunks of docs that match d, in the order of docs.
Matching(d, docs) == SelectSeq(docs, LAMBDA c : ChunkMatches(d, c))

\* A context block warns that its chunks are not scoped to the document.
HasCaveat(context) == \E i \in 1..Len(context) : context[i].kind = "caveat"

\* The context block holds the chunks of docs, one entry each, in order.
Holds(context, docs) ==
    /\ Len(context) = Len(docs)
    /\ \A i \in 1..Len(docs) :
          /\ context[i].kind = "chunk"
          /\ context[i].text.text = docs[i].page_content.text

\* The two result sets of the call in progress, once the contexts are built:
\* what the retriever handed back, what was kept, the context block.
Blocks(s) ==
    {[retrieved |-> call[s].retrieved_analysis, kept |-> call[s].analysis_docs,
      context |-> call[s].analysis_context],
     [retrieved |-> call[s].retrieved_raw, kept |-> call[s].raw_docs,
      context |-> call[s].raw_context]}

\* C9: with a document identifier set and a retrieved chunk that matches
\* it, the context holds exactly the matching chunks, in retrieval order,
\* and no caveat; when every retrieved chunk carries the identifier
\* verbatim under a tracked key, all of them are kept.
C9_ScopeKeepsMatches ==
    \A s \in Sessions :
        (qa_pc[s] = "invoke" /\ HasDocId(s)) =>
            \A b \in Blocks(s) :
                /\ Matching(agent[s].doc_id, b.retrieved) # <<>> =>
                      /\ b.kept = Matching(agent[s].doc_id, b.retrieved)
                      /\ Holds(b.context, b.kept)
                      /\ ~ HasCaveat(b.context)
                /\ (b.retrieved # <<>> /\ \A i \in 1..Len(b.retrieved) :
                        CarriesVerbatim(agent[s].doc_id, b.retrieved[i])) =>
                      b.kept = b.retrieved

\* One result set keeps one chunk of two, the other one holds two chunks
\* that carry the identifier verbatim, under different keys, and keeps both.
C9_Witness ==
    /\ qa_pc["s1"] = "invoke"
    /\ agent["s1"].doc_id = <<"d", "/", "a", ".", "p">>
    /\ Len(call["s1"].retrieved_analysis) = 2
    /\ Len(call["s1"].analysis_docs) = 1
    /\ call["s1"].analysis_docs[1] = call["s1"].retrieved_analysis[2]
    /\ Len(call["s1"].retrieved_raw) = 2
    /\ \A i \in 1..2 : CarriesVerbatim(agent["s1"].doc_id, call["s1"].retrieved_raw[i])
    /\ call["s1"].raw_docs = call["s1"].retrieved_raw

\* C10: with a document identifier set and no retrieved chunk that matches
\* it, the chunks kept are the retrieved ones and the context block says so
\* in a caveat.
C10_FallbackSignalled ==
    \A s \in Sessions :
        (qa_pc[s] = "invoke" /\ HasDocId(s)) =>
            \A b \in Blocks(s) :
                (b.retrieved # <<>> /\ Matching(agent[s].doc_id, b.retrieved) = <<>>) =>
                    /\ b.kept = b.retrieved
                    /\ HasCaveat(b.context)

\* C11: with no document identifier (None or the empty str), every chunk a
\* retriever handed back is kept, in both result sets, each has its entry in
\* the context block, and no block carries a caveat.
C11_UnsetKeepsAll ==
    \A s \in Sessions :
        (qa_pc[s] = "invoke" /\ ~ HasDocId(s)) =>
            \A b \in Blocks(s) :
                /\ b.kept = b.retrieved
                /\ b.retrieved # <<>> => Holds(b.context, b.retrieved)
                /\ ~ HasCaveat(b.context)

\* A session made with the empty str: both retrievers handed back two
\* chunks, one of them without a "doc_id", and all four are kept.
C11_Witness ==
    /\ qa_pc["s1"] = "invoke"
    /\ agent["s1"].doc_id = <<>>
    /\ Len(call["s1"].retrieved_analysis) = 2
    /\ Len(call["s1"].retrieved_raw) = 2
    /\ \E i \in 1..2 : "doc_id" \notin DOMAIN call["s1"].retrieved_raw[i].metadata
    /\ call["s1"].analysis_docs = call["s1"].retrieved_analysis
    /\ call["s1"].raw_docs = call["s1"].retrieved_raw

\* C12: the history of a session never holds more than 2 * max_history
\* entries, for every max_history >= 0.
C12_HistoryBounded ==
    \A s \in Sessions : Len(history[s]) <= 2 * agent[s].max_history

\* C13: every answer call that has ended has returned an answer; none has
\* raised, whatever the model invocation did.
C13_InvocationRecovered ==
    \A s \in Sessions :
        (qa_pc[s] = "idle" /\ calls[s] > 0) => outcome[s].kind = "returned"

\* The line _format_context makes of an empty list.
NoContext(label) == <<[kind |-> "no_context", label |-> label]>>

\* C14: no step of the two retrievals ends the call or raises, a failed
\* retrieval or not: the call goes on to the next retrieval and then to the
\* model invocation.  At the invocation a failed result set is empty and
\* its block says "no context", a result set that did not fail holds what
\* the filter keeps of the retrieved chunks, and the model can answer.
C14_RetrievalFailureRecovered ==
    /\ [][\A s \in Sessions :
            (qa_pc[s] \in {"retrieve_analysis", "retrieve_raw"}
                /\ qa_pc'[s] # qa_pc[s]) =>
                /\ qa_pc'[s] = (IF qa_pc[s] = "retrieve_analysis"
                                THEN "retrieve_raw" ELSE "invoke")
                /\ outcome'[s].kind = "none"]_vars
    /\ [](\A s \in Sessions :
            qa_pc[s] = "invoke" =>
                /\ call[s].analysis_failed =>
                      /\ call[s].analysis_docs = <<>>
                      /\ call[s].analysis_context = NoContext("A")
                /\ call[s].raw_failed =>
                      /\ call[s].raw_docs = <<>>
                      /\ call[s].raw_context = NoContext("D")
                /\ ~ call[s].analysis_failed =>
                      call[s].analysis_docs =
                          Matching(agent[s].doc_id, call[s].retrieved_analysis)
                      \/ (~ HasDocId(s)
                            /\ call[s].analysis_docs = call[s].retrieved_analysis)
                /\ ~ call[s].raw_failed =>
                      call[s].raw_docs =
                          Matching(agent[s].doc_id, call[s].retrieved_raw)
                      \/ (~ HasDocId(s)
                            /\ call[s].raw_docs = call[s].retrieved_raw)
                /\ outcome[s].kind = "none"
                /\ \A content \in Contents : ENABLED InvokeReturns(s, content))

\* The raw retrieval failed, the analysis retrieval did not, and the model
\* is invoked with the analysis chunks.
C14_Witness ==
    /\ qa_pc["s1"] = "invoke"
    /\ call["s1"].raw_failed
    /\ ~ call["s1"].analysis_failed
    /\ call["s1"].analysis_docs # <<>>
    /\ call["s1"].raw_context = NoContext("D")

\* What the set of a document identifier has to be: the identifier, its
\* base file name, and the base file name without its extension.
ExpectedCandidates(d) ==
    CASE d = <<"d", "/", "a", ".", "p">> -> {d, <<"a", ".", "p">>, <<"a">>}
      [] d = <<"q", "/">>                -> {d, <<>>}
      [] OTHER                           -> {d}

\* Chunk c holds, under a tracked key, a non-empty value that contains one
\* of cands.
ChunkMatchesAny(cands, c) ==
    \E key \in TrackedKeys \cap DOMAIN c.metadata :
        /\ Truthy(c.metadata[key])
        /\ \E v \in Vals(c.metadata[key]) : \E cand \in cands :
              Contains(ToStr(v), cand)

\* C20: the candidates of a session made with a non-empty identifier are
\* the identifier, its base name and its stem, and nothing else; computing
\* them again gives the same set; no step changes them; and what every
\* answer call keeps of a result set is fixed by that set and the chunks
\* retrieved.
C20_NormalizeExact ==
    /\ [](\A s \in Sessions :
            (qa_pc[s] # "none" /\ HasDocId(s)) =>
                /\ agent[s]._doc_id_candidates = ExpectedCandidates(agent[s].doc_id)
                /\ _normalize_doc_ids(agent[s].doc_id) = agent[s]._doc_id_candidates)
    /\ [][agent' = agent]_vars
    /\ [](\A s \in Sessions :
            (qa_pc[s] = "invoke" /\ HasDocId(s)) =>
                \A b \in Blocks(s) :
                    b.kept = SelectSeq(b.retrieved, LAMBDA c :
                                ChunkMatchesAny(ExpectedCandidates(agent[s].doc_id), c)))

\* The second answer call of a session made with a path: its candidates
\* are the path, the file name and the stem, and both chunks that name the
\* file are kept.
C20_Witness ==
    /\ calls["s1"] = 2
    /\ qa_pc["s1"] = "invoke"
    /\ agent["s1"].doc_id = <<"d", "/", "a", ".", "p">>
    /\ Cardinality(agent["s1"]._doc_id_candidates) = 3
    /\ Len(call["s1"].raw_docs) = 2
    /\ history["s1"] # <<>>

-----------------------------------------------------------------------------
(***************************************************************************)
(*                      The ingestion's properties                         *)
(***************************************************************************)

\* The extensions process_document has a loader for.
Supported ==
    {<<"p", "d", "f">>, <<"d", "o", "c", "x">>, <<"p", "n", "g">>,
     <<"j", "p", "g">>, <<"j", "p", "e", "g">>}

\* The extension of a path, as process_document reads it: what follows the
\* last dot (the whole path when it has no dot), whatever the case of its
\* letters.
Extension(path) ==
    LET dots == {i \in 1..Len(path) : path[i] = "."}
        after == IF dots = {} THEN 0
                 ELSE CHOOSE i \in dots : \A j \in dots : j <= i
    IN  LowerChars([k \in 1..(Len(path) - after) |-> path[after + k]])

\* A path process_document cannot take: no such file, or no loader for it.
BadPath(file) == ~ file.exists \/ Extension(file.path) \notin Supported

\* The chunks the call has written so far.
Written == Flatten(writes)

\* C15: process_document on a path that does not exist, or whose extension
\* is none of pdf, docx, png, jpg, jpeg, returns at once a record that holds
\* an 'error' and nothing else; it does not raise, asks nothing of the
\* vector store and leaves the store as it was.
C15_BadPathIsError ==
    /\ [][(dp_call'.op = "process_document" /\ dp_pc = "idle"
             /\ BadPath(dp_call'.file)) =>
             /\ dp_pc' = "done"
             /\ vectordb' = vectordb]_vars
    /\ []((dp_call.op = "process_document" /\ BadPath(dp_call.file)) =>
             /\ dp_pc = "done"
             /\ DOMAIN dp_result = {"error"}
             /\ writes = <<>>
             /\ dp_chunks = <<>>
             /\ ~ ENABLED IngestNext)

\* process_document has returned an error record for a file that exists
\* and holds text, but whose type it has no loader for; the store still
\* holds the chunk it held before.
C15_Witness ==
    /\ dp_pc = "done"
    /\ dp_call.op = "process_document"
    /\ dp_call.file.exists
    /\ dp_call.file.path = <<"a", ".", "t", "x", "t">>
    /\ dp_call.file.pages = <<<<"t", "t">>>>
    /\ dp_result = [error |-> "Unsupported file type"]
    /\ vectordb = <<EarlierChunk>>

\* C16: for a file that exists, has a supported extension and can be read,
\* process_document never returns a manifest with no chunk, returns a
\* manifest with one chunk or more when it returns one for a text that is
\* not empty, and returns an error record when every page's text is empty.
C16_NoEmptyManifest ==
    (dp_pc = "done" /\ dp_call.op = "process_document"
        /\ ~ BadPath(dp_call.file) /\ dp_call.file.readable) =>
        /\ "num_chunks" \in DOMAIN dp_result => dp_result.num_chunks >= 1
        /\ (\A i \in 1..Len(dp_call.file.pages) : dp_call.file.pages[i] = <<>>) =>
              DOMAIN dp_result = {"error"}

\* C17: when a batch write fails after a batch was written, process_document
\* returns a PartialIngestion error that says how many chunks were written;
\* the batches written stay in the store and no later batch is written.
C17_PartialIngestion ==
    (dp_pc = "done" /\ dp_call.op = "process_document" /\ writes # <<>>
        /\ Len(Written) < Len(dp_chunks)) =>
        /\ "error" \in DOMAIN dp_result
        /\ "persisted" \in DOMAIN dp_result
        /\ dp_result.persisted = Len(Written)
        /\ Written = SubSeq(dp_chunks, 1, Len(Written))
        /\ SubSeq(vectordb, Len(vectordb) - Len(Written) + 1, Len(vectordb)) = Written
        /\ ~ ENABLED IngestNext

\* C19: every chunk a call has written to the vector store has a non-empty
\* "doc_id" in its metadata.
C19_ChunksHaveDocId ==
    \A i \in 1..Len(Written) :
        /\ "doc_id" \in DOMAIN Written[i].metadata
        /\ Truthy(Written[i].metadata["doc_id"])

-----------------------------------------------------------------------------
(***************************************************************************)
(*                   The pipeline under cancellation                       *)
(***************************************************************************)

\* C18: once a run has been cancelled, none of its invocations is in flight
\* any more, it starts no further stage, and it is marked as aborted: what
\* its caller holds for it says "aborted".
C18_CancellationAborts ==
    \A p \in DocumentPaths :
        pc[p] = "cancelled" =>
            /\ \A s \in Stages : stage[p][s] # "inflight"
            /\ ~ ENABLED (StartPipeline(p) \/ AfterProcessor(p) \/ AfterGather(p)
                          \/ AfterRisk(p) \/ AfterReport(p))
            /\ ret[p].kind = "aborted"

-----------------------------------------------------------------------------
(***************************************************************************)
(*              The QA session's properties, continued                     *)
(***************************************************************************)

\* The text of a str or of a number.
TextOf(v) == IF v.kind = "int" THEN <<Digit(v.n)>> ELSE v.s

\* Metadata matches document d: under one of the five keys it holds a value
\* that is not empty (no '', no 0, no empty list) and that contains, itself
\* or in one of the elements of the list it is, a candidate of d.
MatchesDocument(d, metadata) ==
    \E key \in {"doc_id", "source", "file_name", "source_id", "source_filename"} :
        /\ key \in DOMAIN metadata
        /\ \E cand \in ExpectedCandidates(d) :
              LET val == metadata[key]
              IN  \/ /\ val.kind \in {"str", "int"}
                     /\ TextOf(val) # <<>>
                     /\ val # IntValue(0)
                     /\ Contains(TextOf(val), cand)
                  \/ /\ val.kind = "list"
                     /\ \E i \in 1..Len(val.items) : Contains(val.items[i], cand)

\* C21: with a document identifier set, _doc_matches says of the metadata
\* of a chunk exactly whether it matches the document; metadata with none
\* of the five keys does not match; and what an answer call keeps of a
\* result set are the chunks whose metadata matches.
C21_DocMatchesExact ==
    \A s \in Sessions :
        (qa_pc[s] # "none" /\ HasDocId(s)) =>
            /\ \A c \in index :
                  /\ _doc_matches(agent[s], c.metadata)
                        <=> MatchesDocument(agent[s].doc_id, c.metadata)
                  /\ TrackedKeys \cap DOMAIN c.metadata = {} =>
                        ~ _doc_matches(agent[s], c.metadata)
            /\ qa_pc[s] = "invoke" =>
                  \A b \in Blocks(s) :
                      b.kept = SelectSeq(b.retrieved, LAMBDA c :
                                  MatchesDocument(agent[s].doc_id, c.metadata))

\* The chunk whose "source_filename" holds the path between other
\* characters was retrieved and is kept.
C21_Witness ==
    /\ qa_pc["s1"] = "invoke"
    /\ agent["s1"].doc_id = <<"d", "/", "a", ".", "p">>
    /\ \E c \in index :
          /\ DOMAIN c.metadata = {"source_filename"}
          /\ call["s1"].retrieved_raw = <<c>>
          /\ call["s1"].raw_docs = <<c>>

-----------------------------------------------------------------------------
(***************************************************************************)
(*                The ingestion's properties, continued                    *)
(***************************************************************************)

\* The least number of batches of at most b chunks that hold n chunks.
BatchesNeeded(n, b) == CHOOSE k \in 0..n : (k - 1) * b < n /\ n <= k * b

\* The call has returned what it returns when nothing raised.
ReturnedRecord ==
    /\ dp_pc = "done"
    /\ "num_chunks" \in DOMAIN dp_result \/ "status" \in DOMAIN dp_result

\* C22: store_in_vectordb_batch writes one batch per step; no batch is
\* empty or holds more than batch_size chunks; the chunks written are the
\* first chunks of the list, each once and in the order of the list, and
\* they follow in the store what it held before; when the call returns its
\* record, every chunk of the list is written, in as many writes as the
\* list needs and in none when it is empty.
C22_BatchedWrites ==
    /\ [][/\ Len(writes') <= Len(writes) + 1
          /\ \E k \in 0..tool.batch_size :
                /\ Len(vectordb') = Len(vectordb) + k
                /\ SubSeq(vectordb', 1, Len(vectordb)) = vectordb]_vars
    /\ [](/\ \A i \in 1..Len(writes) :
                Len(writes[i]) \in 1..tool.batch_size
          /\ Len(Written) <= Len(dp_chunks)
          /\ \A i \in 1..Len(Written) : Written[i] = dp_chunks[i]
          /\ Len(Written) <= Len(vectordb)
          /\ \A i \in 1..Len(Written) :
                vectordb[Len(vectordb) - Len(Written) + i] = dp_chunks[i]
          /\ ReturnedRecord =>
                /\ Written = dp_chunks
                /\ Len(writes) = BatchesNeeded(Len(dp_chunks), tool.batch_size)
                /\ dp_chunks = <<>> => writes = <<>>)

\* Three chunks went into the store in two writes of at most two chunks.
C22_Witness ==
    /\ ReturnedRecord
    /\ tool.batch_size = 2
    /\ Len(dp_chunks) = 3
    /\ Len(writes) = 2
    /\ Len(writes[1]) = 2
    /\ Len(writes[2]) = 1
    /\ Len(vectordb) = 4

-----------------------------------------------------------------------------
(***************************************************************************)
(*            The QA session's history and citation labels                 *)
(***************************************************************************)

\* Sequence s is what is left of sequence t when entries are taken from
\* its front.
IsSuffix(s, t) ==
    /\ Len(s) <= Len(t)
    /\ \A i \in 1..Len(s) : s[i] = t[Len(t) - Len(s) + i]

\* C23: the history of a session changes only when an answer call returns,
\* and then the new history is a suffix of the old one followed by the
\* question of the call and its answer, so that by induction it is a suffix
\* of all the turns in call order; with max_history >= 1 its last two
\* entries are that turn; and the history always has even length, a
\* question at each odd position and an answer at each even one.
C23_HistoryIsSuffix ==
    /\ [][\A s \in Sessions :
            /\ history'[s] # history[s] =>
                  qa_pc[s] = "invoke" /\ outcome'[s].kind = "returned"
            /\ (qa_pc[s] = "invoke" /\ outcome'[s].kind = "returned") =>
                \E content \in Contents :
                    LET turn == <<[role |-> "human", content |-> call[s].question],
                                  [role |-> "ai", content |-> content]>>
                    IN  /\ IsSuffix(history'[s], history[s] \o turn)
                        /\ agent[s].max_history >= 1 =>
                              /\ Len(history'[s]) >= 2
                              /\ IsSuffix(turn, history'[s])]_vars
    /\ [](\A s \in Sessions :
            /\ Len(history[s]) % 2 = 0
            /\ \A i \in 1..Len(history[s]) :
                  history[s][i].role = (IF i % 2 = 1 THEN "human" ELSE "ai"))

\* A session that keeps one turn has answered its second question, and the
\* history holds that turn and nothing of the first.
C23_Witness ==
    /\ agent["s1"].max_history = 1
    /\ calls["s1"] = 2
    /\ qa_pc["s1"] = "idle"
    /\ outcome["s1"].kind = "returned"
    /\ Len(history["s1"]) = 2
    /\ history["s1"][1] = [role |-> "human", content |-> "q2"]

\* The entries of a context block are labelled letter1, letter2, ... and
\* stand for the chunks of docs, in their order.
Labelled(context, letter, docs) ==
    IF docs = <<>>
    THEN context = <<[kind |-> "no_context", label |-> letter]>>
    ELSE /\ Len(context) = Len(docs)
         /\ \A i \in 1..Len(docs) :
               /\ context[i].kind = "chunk"
               /\ context[i].label = letter
               /\ context[i].n = i
               /\ context[i].text.text = docs[i].page_content.text

\* C24: in every answer call, the first or a later one of the session, the
\* analysis block is labelled A1, A2, ... and the raw block D1, D2, ...,
\* along the chunks kept for the block.
C24_CitationLabels ==
    \A s \in Sessions :
        qa_pc[s] = "invoke" =>
            /\ Labelled(call[s].analysis_context, "A", call[s].analysis_docs)
            /\ Labelled(call[s].raw_context, "D", call[s].raw_docs)

\* The second call of a session: both blocks hold two chunks, the raw
\* block those of the analysis block in the other order, and both count
\* from 1.
C24_Witness ==
    /\ calls["s1"] = 2
    /\ qa_pc["s1"] = "invoke"
    /\ Len(call["s1"].analysis_docs) = 2
    /\ Len(call["s1"].raw_docs) = 2
    /\ call["s1"].raw_docs[1] = call["s1"].analysis_docs[2]
    /\ call["s1"].raw_docs[2] = call["s1"].analysis_docs[1]
    /\ call["s1"].analysis_context[1].n = 1
    /\ call["s1"].raw_context[1].n = 1
    /\ call["s1"].raw_context[2].n = 2

-----------------------------------------------------------------------------
(***************************************************************************)
(*                  The graph's properties, continued                      *)
(***************************************************************************)

\* C25: every run of the graph reaches END: it does not stop with an error
\* and it does not go on for ever, whatever the supervisor answers.
C25_ReachesEnd ==
    /\ [](g_node # "error")
    /\ <>(g_node = "END")

\* C26: the node after START is the supervisor; the node after a worker is
\* the supervisor; a worker is entered only from the supervisor, on a
\* decision that names it; a decision 'end' leads to END; and at END no
\* node runs any more.
C26_SupervisorBetweenWorkers ==
    /\ [][/\ g_node = "START" => g_node' = "supervisor"
          /\ g_node \in WorkerAgents => g_node' = "supervisor"
          /\ g_node' \in WorkerAgents =>
                /\ g_node = "supervisor"
                /\ g_route' = Returns(Literal(g_node'))
                /\ g_route' = decide_next(g_last')
          /\ (g_node = "supervisor" /\ g_route' = Returns(Literal("end"))) =>
                g_node' = "END"
          /\ g_node = "END" => g_node' = "END"]_vars
    /\ [](g_node = "END" =>
             /\ g_route = Returns(Literal("end"))
             /\ ~ ENABLED GraphNext)

\* Three workers have run, each on a decision of the supervisor, and the
\* run is at END.
C26_Witness ==
    /\ g_node = "END"
    /\ g_done = {"document_processor_agent", "summarizer_agent",
                 "risk_analysis_agent"}
    /\ g_route = Returns(Literal("end"))

-----------------------------------------------------------------------------
(***************************************************************************)
(*              The pipeline's properties, continued                       *)
(***************************************************************************)

\* A step of the run of path p, up to the return of its process_single.
RunStep(p) ==
    \/ StartPipeline(p)
    \/ \E s \in Stages, j \in BOOLEAN : StageReturns(p, s, j)
    \/ \E s \in Stages : StageRaises(p, s)
    \/ PipelineRaises(p)
    \/ AfterProcessor(p) \/ AfterGather(p) \/ AfterRisk(p) \/ AfterReport(p)
    \/ SingleReturns(p) \/ SingleFails(p)

\* C27: with several paths, the reply has one entry per path; the entry of
\* a path is an error record only if that path's own run failed, whatever
\* happened to the other runs; a run none of whose stages has failed can
\* always take its next step, and the entry of a run that returned holds
\* that run's report after all its five stages returned.
C27_FailureIsolated ==
    mode = "multiple" =>
        /\ response.status \in {0, 200}
        /\ \A p \in active :
              /\ ret[p].kind = "error" => pc[p] = "raised"
              /\ ret[p].kind = "report" =>
                    /\ pc[p] = "returned"
                    /\ \A s \in Stages : stage[p][s] = "returned"
                    /\ ret[p].val = local[p]["final_report_text"]
              /\ (ret[p].kind = "pending" /\ pc[p] # "raised"
                    /\ \A s \in Stages : stage[p][s] # "raised") =>
                    ENABLED RunStep(p)
              /\ (ret[p].kind = "pending" /\ pc[p] = "raised") =>
                    ENABLED SingleFails(p)
        /\ response.status = 200 =>
              /\ Cardinality(response.body) = Cardinality(active)
              /\ \A p \in active :
                    \E e \in response.body :
                        /\ e.path = p
                        /\ e.error = (ret[p].kind = "error")
                        /\ e.report = ret[p].val
                        /\ ret[p].kind # "pending"

\* Two paths: the summarizer of the first raised, the second went through
\* its five stages, and the reply holds an error record and a report.
C27_Witness ==
    /\ mode = "multiple"
    /\ active = {"p1", "p2"}
    /\ stage["p1"]["summarizer"] = "raised"
    /\ \A s \in Stages : stage["p2"][s] = "returned"
    /\ response.status = 200
    /\ \E e \in response.body : e.path = "p1" /\ e.error
    /\ \E e \in response.body :
          e.path = "p2" /\ ~ e.error /\ e.report = local["p2"]["final_report_text"]

-----------------------------------------------------------------------------
(***************************************************************************)
(*       The QA session's history: failed calls and other sessions         *)
(***************************************************************************)

\* C28: the step on which the model invocation of a session raises leaves
\* that session's history as it was: nothing is appended and nothing is
\* evicted.
C28_FailedInvokeKeepsHistory ==
    [][\A s \in Sessions :
          (qa_pc[s] = "invoke" /\ outcome'[s].kind = "raised") =>
              /\ history'[s] = history[s]
              /\ qa_pc'[s] = "idle"]_vars

\* The first call of the session returned, the second raised at the model
\* invocation, and the history is the turn of the first call.
C28_Witness ==
    /\ calls["s1"] = 2
    /\ qa_pc["s1"] = "idle"
    /\ outcome["s1"].kind = "raised"
    /\ agent["s1"].max_history = 2
    /\ history["s1"] = <<[role |-> "human", content |-> "q1"],
                         [role |-> "ai",
                          content |-> [text |-> "answer", upper |-> FALSE,
                                       padded |-> TRUE]]>>

\* The questions in the history of a session.
Asked(s) == {history[s][i].content :
                i \in {j \in 1..Len(history[s]) : history[s][j].role = "human"}}

\* C29: a session that has answered nothing has an empty history; a step
\* changes the history of one session at most, the session whose call
\* returns on that step, and what it appends is the question of that
\* session's call and the model's answer to it; so a question that is in
\* the history of a session was asked of that session.
C29_HistoriesApart ==
    /\ [](\A s \in Sessions : calls[s] = 0 => history[s] = <<>>)
    /\ [][\A s \in Sessions :
            history'[s] # history[s] =>
                /\ qa_pc[s] = "invoke" /\ outcome'[s].kind = "returned"
                /\ \E content \in Contents :
                      history'[s] = UpdatedHistory(agent[s], history[s],
                                                   call[s].question, content)
                /\ Asked(s)' \subseteq Asked(s) \cup {call[s].question}
                /\ \A t \in Sessions \ {s} : history'[t] = history[t]]_vars

\* Both sessions have answered, one the first question and the other the
\* second, and each history holds its own session's question only.
C29_Witness ==
    /\ Asked("s1") = {"q1"}
    /\ Asked("s2") = {"q2"}
    /\ qa_pc["s1"] = "idle" /\ qa_pc["s2"] = "idle"
    /\ outcome["s1"].kind = "returned" /\ outcome["s2"].kind = "returned"

-----------------------------------------------------------------------------
(***************************************************************************)
(*                    The /ask route's properties                          *)
(***************************************************************************)

\* C30: a request for an identifier without an uploaded file ends with a
\* 404 and without a call of answer; a request for an identifier with an
\* uploaded file, whose call of answer returned, ends with a 200 that
\* carries what answer returned.
C30_AskOutcome ==
    ask.pc = "done" =>
        /\ ~ ask.found =>
              /\ ask.status_code = 404
              /\ calls[AskSession] = 0
        /\ (ask.found /\ outcome[AskSession].kind = "returned") =>
              /\ ask.status_code = 200
              /\ ask.answer = outcome[AskSession].value


=============================================================================
